---- MODULE Spec2Model ----
(***************************************************************************)
(* PiGames: the shared curses toolkit (lib/curses_util.py, lib/colors.py)  *)
(* and the two applications built on it (apps/clock.py, games/2048.py).    *)
(*                                                                         *)
(* Time is counted in ticks; the wall clock is observed only by time()     *)
(* and sleep(), so it is kept as the latest observed reading `clk`, and    *)
(* each observation draws a reading that is not earlier.                   *)
(***************************************************************************)
EXTENDS Integers, Sequences, FiniteSets, TLC

\* ------------------------------------------------------------------ bounds
MaxClock == 5           \* latest wall-clock reading explored
MaxKeys == 3            \* number of keys the user types in one run
delta_time_target == 2  \* 1.0 / fps, in ticks
MaxAppKeys == 2         \* number of keys typed into an application run
SIZE == 2               \* board is SIZE x SIZE (4 in games/2048.py)
LineLen == 4            \* length of the lines given to compress_line
MaxRequests == 3        \* number of different get_color answers a client gets

\* --------------------------------------------------------- program constants
KEY_q == 113            \* ord('q')
KEY_ESC == 27
ERR == -1               \* getch() with nothing buffered
KEY_a == 97
KEY_b == 98

VARIABLES
    \* lib/curses_util.py: mainloop's position and locals
    pc, step, exc, result, last, now, delta_time, ch,
    \* the terminal and the clock
    term, clk, keybuf,
    \* lib/colors.py module state, and the terminal's side of it
    PAIR_CACHE, NEXT_PAIR_ID, colorStarted, COLOR_PAIRS,
    \* the program run and its application state
    app, board, score, won,
    \* apps/clock.py: the tunables its key handler toggles
    USE_24H, SHOW_SECONDS, BLINK_COLON,
    \* a function of the program applied to one input: which, to what, its result
    fn, arg, res,
    \* observation of the run (history)
    initPairLog, pairCallStates, answers,
    typed, readSeq, handled, draws, endwinCalls, teardownCalls, cbAfterRestore,
    quitRead, iterNo, iterDraws, iterLastWrites, iterQuit, iterRaised,
    lastAtIterStart, drawDt, bufAtInput, readAtInput, handledAtInput,
    \* observation of pacing: sleep calls in this iteration, the last request
    iterSleeps, sleepArg,
    \* observation of frames: refresh calls in this iteration, glyph writes of
    \* the last frame, those of them discarded, any discarded in earlier frames
    iterFlushes, frameWrites, frameErrors, errorsBefore, frameSz, frameAll,
    \* the win/lose message the last frame wrote, "" if none
    frameMsg

loopVars == <<pc, step, exc, result, last, now, delta_time, ch>>
envVars == <<term, clk, keybuf>>
histVars == <<typed, readSeq, handled, draws, endwinCalls, teardownCalls,
              cbAfterRestore, quitRead, iterNo, iterDraws, iterLastWrites,
              iterQuit, iterRaised, lastAtIterStart, drawDt, bufAtInput,
              readAtInput, handledAtInput>>
colorVars == <<PAIR_CACHE, NEXT_PAIR_ID, colorStarted, COLOR_PAIRS, initPairLog,
               pairCallStates, answers>>
clockVars == <<USE_24H, SHOW_SECONDS, BLINK_COLON>>
pureVars == <<fn, arg, res>>
appVars == <<app, board, score, won, clockVars, pureVars>>
paceVars == <<iterSleeps, sleepArg>>
frameVars == <<iterFlushes, frameWrites, frameErrors, errorsBefore, frameSz,
               frameAll, frameMsg>>
vars == <<loopVars, envVars, histVars, colorVars, appVars, paceVars, frameVars>>

\* ------------------------------------------------------------- curses_util
\* The calls of init(), in order.
InitCalls == <<"initscr", "noecho", "cbreak", "curs_set", "keypad",
               "start_color", "use_default_colors">>

\* The calls of teardown()'s try block, in order.
TeardownCalls == <<"keypad", "nocbreak", "echo", "curs_set">>

QuitKeys == {KEY_q, KEY_ESC}

\* Keys the generic client's user types.
Keys == {KEY_q, KEY_ESC, KEY_a, KEY_b}

\* The Frame Loop state a position of mainloop belongs to.
LoopState ==
    CASE pc = "import" -> "NotStarted"
      [] pc \in {"init", "nodelay"} -> "Initializing"
      [] pc \in {"time0", "timing", "sleep", "setlast", "getch", "handle_key",
                 "draw"} -> "Running"
      [] pc \in {"teardown", "endwin"} -> "ShuttingDown"
      [] OTHER -> "Exited"

\* ------------------------------------------------------------ lib/colors.py
\* Named palette: a hex string is the sequence of its characters.
COLOR_HEX ==
    [
        red |-> [dark |-> <<"#", "8", "B", "0", "0", "0", "0">>, base |-> <<"#", "F", "F", "0", "0", "0", "0">>, light |-> <<"#", "F", "F", "7", "F", "7", "F">>],
        blue |-> [dark |-> <<"#", "0", "0", "3", "3", "A", "A">>, base |-> <<"#", "1", "E", "9", "0", "F", "F">>, light |-> <<"#", "8", "7", "C", "E", "F", "A">>],
        green |-> [dark |-> <<"#", "0", "0", "6", "4", "0", "0">>, base |-> <<"#", "0", "0", "A", "0", "0", "0">>, light |-> <<"#", "7", "C", "F", "C", "0", "0">>],
        yellow |-> [dark |-> <<"#", "8", "B", "8", "0", "0", "0">>, base |-> <<"#", "F", "F", "D", "4", "0", "0">>, light |-> <<"#", "F", "F", "F", "2", "7", "A">>],
        gold |-> [dark |-> <<"#", "B", "8", "8", "6", "0", "B">>, base |-> <<"#", "D", "A", "A", "5", "2", "0">>, light |-> <<"#", "F", "F", "D", "2", "4", "D">>],
        brown |-> [dark |-> <<"#", "5", "A", "3", "A", "1", "A">>, base |-> <<"#", "8", "B", "5", "A", "2", "B">>, light |-> <<"#", "C", "6", "9", "7", "5", "B">>],
        purple |-> [dark |-> <<"#", "4", "B", "0", "0", "8", "2">>, base |-> <<"#", "7", "A", "4", "3", "B", "6">>, light |-> <<"#", "B", "1", "9", "C", "D", "9">>],
        magenta |-> [dark |-> <<"#", "8", "B", "0", "0", "8", "B">>, base |-> <<"#", "F", "F", "0", "0", "F", "F">>, light |-> <<"#", "F", "F", "7", "7", "F", "F">>],
        pink |-> [dark |-> <<"#", "C", "7", "1", "5", "8", "5">>, base |-> <<"#", "F", "F", "6", "9", "B", "4">>, light |-> <<"#", "F", "F", "B", "6", "C", "1">>],
        cyan |-> [dark |-> <<"#", "0", "0", "7", "7", "7", "7">>, base |-> <<"#", "0", "0", "B", "7", "B", "7">>, light |-> <<"#", "7", "F", "F", "F", "D", "4">>],
        orange |-> [dark |-> <<"#", "C", "C", "5", "5", "0", "0">>, base |-> <<"#", "F", "F", "8", "C", "0", "0">>, light |-> <<"#", "F", "F", "B", "3", "4", "7">>],
        lime |-> [dark |-> <<"#", "2", "E", "8", "B", "5", "7">>, base |-> <<"#", "3", "2", "C", "D", "3", "2">>, light |-> <<"#", "9", "8", "F", "B", "9", "8">>],
        gray |-> [dark |-> <<"#", "5", "0", "5", "0", "5", "0">>, base |-> <<"#", "8", "0", "8", "0", "8", "0">>, light |-> <<"#", "B", "D", "B", "D", "B", "D">>],
        black |-> [base |-> <<"#", "0", "0", "0", "0", "0", "0">>],
        white |-> [base |-> <<"#", "F", "F", "F", "F", "F", "F">>]
    ]

\* Mutant: six evenly spaced levels.
cube_level_even(n) == 51 * n

\* _cube_level(n)
cube_level(n) == <<0, 95, 135, 175, 215, 255>>[n + 1]

\* pal += [...]: the sixteen standard entries.
ANSI16 ==
    << <<0, 0, 0>>, <<205, 0, 0>>, <<0, 205, 0>>, <<205, 205, 0>>,
       <<0, 0, 238>>, <<205, 0, 205>>, <<0, 205, 205>>, <<229, 229, 229>>,
       <<127, 127, 127>>, <<255, 0, 0>>, <<0, 255, 0>>, <<255, 255, 0>>,
       <<92, 92, 255>>, <<255, 0, 255>>, <<0, 255, 255>>, <<255, 255, 255>> >>

\* for b in range(6): pal.append(...), the innermost loop of the cube.
CubeB(r, g) ==
    [k \in 1..6 |-> <<cube_level(r), cube_level(g), cube_level(k - 1)>>]

\* for g in range(6): the entries the middle loop appends, in order.
CubeG(r) ==
    CubeB(r, 0) \o CubeB(r, 1) \o CubeB(r, 2) \o CubeB(r, 3) \o CubeB(r, 4)
        \o CubeB(r, 5)

\* for r in range(6): the 216 entries of the cube, in order.
Cube == CubeG(0) \o CubeG(1) \o CubeG(2) \o CubeG(3) \o CubeG(4) \o CubeG(5)

\* for i in range(24): v = 8 + i * 10; pal.append((v, v, v))
GrayRamp == [k \in 1..24 |-> <<8 + (k - 1) * 10, 8 + (k - 1) * 10, 8 + (k - 1) * 10>>]

\* _build_xterm256()
build_xterm256 == ANSI16 \o Cube \o GrayRamp

\* _XTERM256; palette index i is element i + 1 of the sequence.
XTERM256 == build_xterm256

HexDigit ==
    [c \in {"0", "1", "2", "3", "4", "5", "6", "7", "8", "9",
            "A", "B", "C", "D", "E", "F"} |->
        CASE c = "0" -> 0 [] c = "1" -> 1 [] c = "2" -> 2 [] c = "3" -> 3
          [] c = "4" -> 4 [] c = "5" -> 5 [] c = "6" -> 6 [] c = "7" -> 7
          [] c = "8" -> 8 [] c = "9" -> 9 [] c = "A" -> 10 [] c = "B" -> 11
          [] c = "C" -> 12 [] c = "D" -> 13 [] c = "E" -> 14 [] c = "F" -> 15]

RECURSIVE lstrip_hash(_)
lstrip_hash(h) ==
    IF h # <<>> /\ Head(h) = "#" THEN lstrip_hash(Tail(h)) ELSE h

\* _hex_to_rgb(h)
hex_to_rgb(h) ==
    LET x == lstrip_hash(h)
        byte(i) == 16 * HexDigit[x[i]] + HexDigit[x[i + 1]]
    IN  <<byte(1), byte(3), byte(5)>>

\* best_d's start value: 1e18 in the source, above every distance.
BEST_D0 == 1000000000

\* Mutant: an equal distance replaces the best too.
scan_step_last(i, rgb, best) ==
    LET p == XTERM256[i + 1]
        d == (rgb[1] - p[1]) * (rgb[1] - p[1])
             + (rgb[2] - p[2]) * (rgb[2] - p[2])
             + (rgb[3] - p[3]) * (rgb[3] - p[3])
    IN  IF d <= best[2] THEN <<i, d>> ELSE best

\* One turn of the loop of _nearest_index at palette index i, best = (best_i,
\* best_d): a strictly smaller distance replaces the best.
scan_step(i, rgb, best) ==
    LET p == XTERM256[i + 1]
        d == (rgb[1] - p[1]) * (rgb[1] - p[1])
             + (rgb[2] - p[2]) * (rgb[2] - p[2])
             + (rgb[3] - p[3]) * (rgb[3] - p[3])
    IN  IF d < best[2] THEN <<i, d>> ELSE best

\* The loop over palette entries lo..hi-1 in ascending order: the first half,
\* then the second half from the best the first half ended with (the one-element
\* set binds that intermediate result as a value).
RECURSIVE nearest_scan(_, _, _, _)
nearest_scan(lo, hi, rgb, best) ==
    IF lo >= hi THEN best
    ELSE IF hi = lo + 1 THEN scan_step(lo, rgb, best)
    ELSE LET mid == (lo + hi) \div 2
         IN  CHOOSE r \in {nearest_scan(mid, hi, rgb, left) :
                              left \in {nearest_scan(lo, mid, rgb, best)}} : TRUE

\* _nearest_index(r, g, b)
nearest_index(rgb) == nearest_scan(0, Len(XTERM256), rgb, <<0, BEST_D0>>)[1]

\* COLOR_IDX, precomputed for all named colors.
COLOR_IDX ==
    [name \in DOMAIN COLOR_HEX |->
        [vname \in DOMAIN COLOR_HEX[name] |->
            nearest_index(hex_to_rgb(COLOR_HEX[name][vname]))]]

\* Mutant: the BT.601 weights.
luminance_bt601(rgb) == 2990 * rgb[1] + 5870 * rgb[2] + 1140 * rgb[3]

\* _luminance(r, g, b), times 10000.
luminance(rgb) == 2126 * rgb[1] + 7152 * rgb[2] + 722 * rgb[3]

\* _auto_contrast_fg(bg_idx): 0 = black, 15 = white.
auto_contrast_fg(bg_idx) ==
    IF luminance(XTERM256[bg_idx + 1]) > 140 * 10000 THEN 0 ELSE 15

\* curses attribute bits: COLOR_PAIR(n) is n shifted left by 8; the style bits
\* lie above the pair field, so OR-ing them in adds them.
A_BOLD == 2097152
A_UNDERLINE == 131072
color_pair(pid) == pid * 256

\* fg=None
None == <<"None">>

\* The module state of colors.py as get_color sees and leaves it; `err` is
\* "" when the call returned, and `calls` counts the init_pair calls made.
ColorState ==
    [cache |-> PAIR_CACHE, next |-> NEXT_PAIR_ID, log |-> initPairLog,
     calls |-> 0, err |-> "", attr |-> 0, pid |-> 0]

\* curses.init_pair(pair_number, fg, bg) succeeds once colors are started and
\* the pair number is below the terminal's COLOR_PAIRS.
init_pair_ok(pair_number) ==
    colorStarted /\ 1 <= pair_number /\ pair_number < COLOR_PAIRS

\* Mutant: the cache is looked up by background only.
pair_for_indices_bg_key(cs, fg_idx, bg_idx) ==
    LET key == <<bg_idx, bg_idx>> IN
    IF key \in DOMAIN cs.cache
    THEN [cs EXCEPT !.pid = cs.cache[key]]
    ELSE IF init_pair_ok(cs.next)
         THEN [cs EXCEPT !.cache = cs.cache @@ (key :> cs.next),
                         !.next = cs.next + 1,
                         !.log = Append(cs.log, <<cs.next, fg_idx, bg_idx>>),
                         !.calls = cs.calls + 1,
                         !.pid = cs.next]
         ELSE [cs EXCEPT !.calls = cs.calls + 1, !.err = "curses.error"]

\* Mutant: _NEXT_PAIR_ID is not incremented.
pair_for_indices_no_inc(cs, fg_idx, bg_idx) ==
    LET key == <<fg_idx, bg_idx>> IN
    IF key \in DOMAIN cs.cache
    THEN [cs EXCEPT !.pid = cs.cache[key]]
    ELSE IF init_pair_ok(cs.next)
         THEN [cs EXCEPT !.cache = cs.cache @@ (key :> cs.next),
                         !.log = Append(cs.log, <<cs.next, fg_idx, bg_idx>>),
                         !.calls = cs.calls + 1,
                         !.pid = cs.next]
         ELSE [cs EXCEPT !.calls = cs.calls + 1, !.err = "curses.error"]

\* Mutant: _NEXT_PAIR_ID is incremented before init_pair is called.
pair_for_indices_inc_first(cs, fg_idx, bg_idx) ==
    LET key == <<fg_idx, bg_idx>> IN
    IF key \in DOMAIN cs.cache
    THEN [cs EXCEPT !.pid = cs.cache[key]]
    ELSE IF init_pair_ok(cs.next)
         THEN [cs EXCEPT !.cache = cs.cache @@ (key :> cs.next),
                         !.next = cs.next + 1,
                         !.log = Append(cs.log, <<cs.next, fg_idx, bg_idx>>),
                         !.calls = cs.calls + 1,
                         !.pid = cs.next]
         ELSE [cs EXCEPT !.next = cs.next + 1, !.calls = cs.calls + 1,
                         !.err = "curses.error"]

\* Mutant: the cache is never consulted, every request allocates a pair.
pair_for_indices_always(cs, fg_idx, bg_idx) ==
    LET key == <<fg_idx, bg_idx>> IN
    IF init_pair_ok(cs.next)
    THEN [cs EXCEPT !.cache = (key :> cs.next) @@ cs.cache,
                    !.next = cs.next + 1,
                    !.log = Append(cs.log, <<cs.next, fg_idx, bg_idx>>),
                    !.calls = cs.calls + 1,
                    !.pid = cs.next]
    ELSE [cs EXCEPT !.calls = cs.calls + 1, !.err = "curses.error"]

\* _pair_for_indices(fg_idx, bg_idx), from module state cs.
pair_for_indices(cs, fg_idx, bg_idx) ==
    LET key == <<fg_idx, bg_idx>> IN
    IF key \in DOMAIN cs.cache
    THEN [cs EXCEPT !.pid = cs.cache[key]]
    ELSE IF init_pair_ok(cs.next)
         THEN [cs EXCEPT !.cache = cs.cache @@ (key :> cs.next),
                         !.next = cs.next + 1,
                         !.log = Append(cs.log, <<cs.next, fg_idx, bg_idx>>),
                         !.calls = cs.calls + 1,
                         !.pid = cs.next]
         ELSE [cs EXCEPT !.calls = cs.calls + 1, !.err = "curses.error"]

\* COLOR_IDX[name][variant] raises KeyError for an unregistered color.
Registered(c) ==
    /\ c[1] \in DOMAIN COLOR_IDX
    /\ c[2] \in DOMAIN COLOR_IDX[c[1]]

\* `a |= bit`
OrBit(a, flag, bit) == IF flag THEN a + bit ELSE a

\* Mutant: the foreground is looked up after a pair was allocated for the
\* background with its auto-contrast foreground.
get_color_late_lookup(cs, bg, fg, bold, underline) ==
    IF cs.err # "" THEN cs
    ELSE IF ~Registered(bg) THEN [cs EXCEPT !.err = "KeyError"]
    ELSE IF fg # None /\ ~Registered(fg)
         THEN LET bg_idx == COLOR_IDX[bg[1]][bg[2]]
                  ps == pair_for_indices(cs, auto_contrast_fg(bg_idx), bg_idx)
              IN  IF ps.err # "" THEN ps ELSE [ps EXCEPT !.err = "KeyError"]
    ELSE LET bg_idx == COLOR_IDX[bg[1]][bg[2]]
             fg_idx == IF fg = None THEN auto_contrast_fg(bg_idx)
                       ELSE COLOR_IDX[fg[1]][fg[2]]
             ps == pair_for_indices(cs, fg_idx, bg_idx)
         IN  IF ps.err # "" THEN ps
             ELSE [ps EXCEPT !.attr =
                      OrBit(OrBit(color_pair(ps.pid), bold, A_BOLD),
                            underline, A_UNDERLINE)]

\* get_color(bg=, fg=, bold=, underline=), from module state cs; a call made
\* after an earlier one raised is not made at all.
get_color(cs, bg, fg, bold, underline) ==
    IF cs.err # "" THEN cs
    ELSE IF ~Registered(bg) THEN [cs EXCEPT !.err = "KeyError"]
    ELSE IF fg # None /\ ~Registered(fg) THEN [cs EXCEPT !.err = "KeyError"]
    ELSE LET bg_idx == COLOR_IDX[bg[1]][bg[2]]
             fg_idx == IF fg = None THEN auto_contrast_fg(bg_idx)
                       ELSE COLOR_IDX[fg[1]][fg[2]]
             ps == pair_for_indices(cs, fg_idx, bg_idx)
         IN  IF ps.err # "" THEN ps
             ELSE [ps EXCEPT !.attr =
                      OrBit(OrBit(color_pair(ps.pid), bold, A_BOLD),
                            underline, A_UNDERLINE)]

\* Mutant: ESC is not treated as a quit key.
IsQuitOnlyQ(c) == c = KEY_q

\* `c in (ord('q'), 27)`: the keys mainloop keeps for itself.
IsQuit(c) == c \in QuitKeys

\* An exception leaving mainloop outside its try block: nothing is restored.
Propagate ==
    /\ pc' = "done"
    /\ step' = 0
    /\ exc' = TRUE
    /\ result' = "raised"
    /\ teardownCalls' = teardownCalls

\* Mutant: no finally clause, so a raised exception skips teardown.
LeaveTryNoFinally(raised) ==
    IF raised
    THEN Propagate
    ELSE /\ pc' = "teardown"
         /\ step' = 1
         /\ exc' = FALSE
         /\ result' = result
         /\ teardownCalls' = teardownCalls + 1

\* Leaving the try block of mainloop, by return or by a raised exception:
\* the finally clause calls teardown(stdscr).
LeaveTry(raised) ==
    /\ pc' = "teardown"
    /\ step' = 1
    /\ exc' = raised
    /\ result' = result
    /\ teardownCalls' = teardownCalls + 1

\* Mutant: `break` instead of `return`: the frame is still drawn.
OnQuitBreak ==
    /\ pc' = "draw"
    /\ UNCHANGED <<step, exc, result, teardownCalls>>

\* `return` on a quit key: out of the try block, nothing raised.
OnQuit == LeaveTry(FALSE)

\* Mutant: `if` instead of `while`: one key per frame.
AfterHandleKeyDraw == "draw"

\* Where the input loop goes after handle_key returns: `while True` reads on.
AfterHandleKey == "getch"

\* Mutant: `last` keeps its value.
NewLastStale == last

\* What `last = now` stores.
NewLast == now

\* The elapsed time handed to update_draw.
DrawArg == delta_time

\* Mutant: sleep a whole frame interval, whatever has elapsed.
SleepForFull == delta_time_target

\* What sleep() is asked for: delta_time_target - delta_time.
SleepFor == delta_time_target - delta_time

\* init(): one curses call per step; any of them may raise curses.error.
InitStep(ok) ==
    /\ UNCHANGED <<paceVars, frameVars>>
    /\ pc = "init"
    /\ IF ok
       THEN /\ term' = IF InitCalls[step] = "initscr" THEN "curses" ELSE term
            /\ IF step = Len(InitCalls)
               THEN pc' = "nodelay" /\ step' = 0
               ELSE pc' = "init" /\ step' = step + 1
            /\ UNCHANGED <<exc, result, teardownCalls>>
       ELSE /\ Propagate
            /\ UNCHANGED term
    /\ UNCHANGED <<last, now, delta_time, ch, clk, keybuf>>
    /\ UNCHANGED <<typed, readSeq, handled, draws, endwinCalls, cbAfterRestore,
                   quitRead, iterNo, iterDraws, iterLastWrites, iterQuit,
                   iterRaised, lastAtIterStart, drawDt, bufAtInput, readAtInput,
                   handledAtInput>>
    /\ colorStarted' = (colorStarted \/ (ok /\ InitCalls[step] = "start_color"))
    /\ UNCHANGED <<PAIR_CACHE, NEXT_PAIR_ID, COLOR_PAIRS, initPairLog,
                   pairCallStates, answers, appVars>>

\* stdscr.nodelay(True), still outside the try block.
Nodelay(ok) ==
    /\ UNCHANGED <<paceVars, frameVars>>
    /\ pc = "nodelay"
    /\ IF ok
       THEN pc' = "time0" /\ UNCHANGED <<step, exc, result, teardownCalls>>
       ELSE Propagate
    /\ UNCHANGED <<last, now, delta_time, ch, term, clk, keybuf>>
    /\ UNCHANGED <<typed, readSeq, handled, draws, endwinCalls, cbAfterRestore,
                   quitRead, iterNo, iterDraws, iterLastWrites, iterQuit,
                   iterRaised, lastAtIterStart, drawDt, bufAtInput, readAtInput,
                   handledAtInput>>
    /\ UNCHANGED <<colorVars, appVars>>

\* last = time(); the try block is entered.
Time0(t) ==
    /\ UNCHANGED <<paceVars, frameVars>>
    /\ pc = "time0"
    /\ t \in clk..MaxClock
    /\ clk' = t
    /\ last' = t
    /\ pc' = "timing"
    /\ UNCHANGED <<step, exc, result, now, delta_time, ch, term, keybuf>>
    /\ UNCHANGED histVars
    /\ UNCHANGED <<colorVars, appVars>>

\* --- TIMING ---: now = time(); delta_time = now - last; the comparison.
Timing(t) ==
    /\ pc = "timing"
    /\ t \in clk..MaxClock
    /\ clk' = t
    /\ now' = t
    /\ delta_time' = t - last
    /\ pc' = IF t - last < delta_time_target THEN "sleep" ELSE "setlast"
    /\ iterNo' = iterNo + 1
    /\ iterDraws' = 0
    /\ iterLastWrites' = 0
    /\ iterQuit' = FALSE
    /\ iterRaised' = FALSE
    /\ lastAtIterStart' = last
    /\ iterSleeps' = 0
    /\ iterFlushes' = 0
    /\ UNCHANGED <<sleepArg, frameWrites, frameErrors, errorsBefore, frameSz,
                   frameAll, frameMsg>>
    /\ UNCHANGED <<step, exc, result, last, ch, term, keybuf>>
    /\ UNCHANGED <<typed, readSeq, handled, draws, endwinCalls, teardownCalls,
                   cbAfterRestore, quitRead, drawDt, bufAtInput, readAtInput,
                   handledAtInput>>
    /\ UNCHANGED <<colorVars, appVars>>

\* sleep(delta_time_target - delta_time); now = time(); delta_time = now - last.
\* sleep returns no earlier than asked.
Sleep(t) ==
    /\ pc = "sleep"
    /\ t \in (clk + SleepFor)..MaxClock
    /\ iterSleeps' = iterSleeps + 1
    /\ sleepArg' = SleepFor
    /\ UNCHANGED frameVars
    /\ clk' = t
    /\ now' = t
    /\ delta_time' = t - last
    /\ pc' = "setlast"
    /\ UNCHANGED <<step, exc, result, last, ch, term, keybuf>>
    /\ UNCHANGED histVars
    /\ UNCHANGED <<colorVars, appVars>>

\* last = now; the input step begins.
SetLast ==
    /\ UNCHANGED <<paceVars, frameVars>>
    /\ pc = "setlast"
    /\ last' = NewLast
    /\ iterLastWrites' = iterLastWrites + 1
    /\ pc' = "getch"
    /\ bufAtInput' = keybuf
    /\ readAtInput' = Len(readSeq)
    /\ handledAtInput' = Len(handled)
    /\ UNCHANGED <<step, exc, result, now, delta_time, ch, term, clk, keybuf>>
    /\ UNCHANGED <<typed, readSeq, handled, draws, endwinCalls, teardownCalls,
                   cbAfterRestore, quitRead, iterNo, iterDraws, iterQuit,
                   iterRaised, lastAtIterStart, drawDt>>
    /\ UNCHANGED <<colorVars, appVars>>

\* ch = stdscr.getch() and the two tests on it.
Getch ==
    /\ UNCHANGED <<paceVars, frameVars>>
    /\ pc = "getch"
    /\ IF keybuf = <<>>
       THEN /\ ch' = ERR
            /\ pc' = "draw"
            /\ UNCHANGED <<step, exc, result, teardownCalls, keybuf, readSeq,
                           quitRead, iterQuit>>
       ELSE /\ ch' = Head(keybuf)
            /\ keybuf' = Tail(keybuf)
            /\ readSeq' = Append(readSeq, Head(keybuf))
            /\ IF IsQuit(Head(keybuf))
               THEN /\ OnQuit
                    /\ quitRead' = TRUE
                    /\ iterQuit' = TRUE
               ELSE /\ pc' = "handle_key"
                    /\ UNCHANGED <<step, exc, result, teardownCalls, quitRead,
                                   iterQuit>>
    /\ UNCHANGED <<last, now, delta_time, term, clk>>
    /\ UNCHANGED <<typed, handled, draws, endwinCalls, cbAfterRestore, iterNo,
                   iterDraws, iterLastWrites, iterRaised, lastAtIterStart,
                   drawDt, bufAtInput, readAtInput, handledAtInput>>
    /\ UNCHANGED <<colorVars, appVars>>

\* The call handle_key(stdscr, ch), as mainloop sees it: the callback returns
\* or raises.
HandleKeyCall(raises) ==
    /\ UNCHANGED <<paceVars, frameVars>>
    /\ pc = "handle_key"
    /\ handled' = Append(handled, ch)
    /\ cbAfterRestore' = (cbAfterRestore \/ teardownCalls > 0)
    /\ iterRaised' = raises
    /\ IF raises
       THEN LeaveTry(TRUE)
       ELSE pc' = AfterHandleKey /\ UNCHANGED <<step, exc, result, teardownCalls>>
    /\ UNCHANGED <<last, now, delta_time, ch, term, clk, keybuf>>
    /\ UNCHANGED <<typed, readSeq, draws, endwinCalls, quitRead, iterNo,
                   iterDraws, iterLastWrites, iterQuit, lastAtIterStart, drawDt,
                   bufAtInput, readAtInput, handledAtInput>>

\* The call update_draw(stdscr, delta_time), as mainloop sees it.
DrawCall(raises) ==
    /\ UNCHANGED paceVars
    /\ pc = "draw"
    /\ draws' = draws + 1
    /\ iterDraws' = iterDraws + 1
    /\ drawDt' = DrawArg
    /\ cbAfterRestore' = (cbAfterRestore \/ teardownCalls > 0)
    /\ IF raises
       THEN LeaveTry(TRUE)
       ELSE pc' = "timing" /\ UNCHANGED <<step, exc, result, teardownCalls>>
    /\ UNCHANGED <<last, now, delta_time, ch, term, clk, keybuf>>
    /\ UNCHANGED <<typed, readSeq, handled, endwinCalls, quitRead, iterNo,
                   iterLastWrites, iterQuit, iterRaised, lastAtIterStart,
                   bufAtInput, readAtInput, handledAtInput>>

\* teardown(): one call of its try block per step; a failure skips to finally.
TeardownStep(ok) ==
    /\ UNCHANGED <<paceVars, frameVars>>
    /\ pc = "teardown"
    /\ IF ok
       THEN /\ IF step = Len(TeardownCalls)
               THEN pc' = "endwin" /\ step' = 0
               ELSE pc' = "teardown" /\ step' = step + 1
            /\ exc' = exc
       ELSE /\ pc' = "endwin"
            /\ step' = 0
            /\ exc' = TRUE
    /\ UNCHANGED <<result, last, now, delta_time, ch, term, clk, keybuf>>
    /\ UNCHANGED histVars
    /\ UNCHANGED <<colorVars, appVars>>

\* curses.endwin() in teardown's finally clause; then mainloop is left.
Endwin(ok) ==
    /\ UNCHANGED <<paceVars, frameVars>>
    /\ pc = "endwin"
    /\ endwinCalls' = endwinCalls + 1
    /\ term' = IF ok THEN "cooked" ELSE term
    /\ exc' = (exc \/ ~ok)
    /\ result' = IF exc \/ ~ok THEN "raised" ELSE "returned"
    /\ pc' = "done"
    /\ UNCHANGED <<step, last, now, delta_time, ch, clk, keybuf>>
    /\ UNCHANGED <<typed, readSeq, handled, draws, teardownCalls,
                   cbAfterRestore, quitRead, iterNo, iterDraws, iterLastWrites,
                   iterQuit, iterRaised, lastAtIterStart, drawDt, bufAtInput,
                   readAtInput, handledAtInput>>
    /\ UNCHANGED <<colorVars, appVars>>

\* How many keys a run's user types.
KeyBudget == IF app = "client" THEN MaxKeys ELSE MaxAppKeys

\* The user types a key: it is buffered until getch() reads it.
KeyPress(k) ==
    /\ UNCHANGED <<paceVars, frameVars>>
    /\ pc # "done"
    /\ Len(typed) < KeyBudget
    /\ keybuf' = Append(keybuf, k)
    /\ typed' = Append(typed, k)
    /\ UNCHANGED <<loopVars, term, clk>>
    /\ UNCHANGED <<readSeq, handled, draws, endwinCalls, teardownCalls,
                   cbAfterRestore, quitRead, iterNo, iterDraws, iterLastWrites,
                   iterQuit, iterRaised, lastAtIterStart, drawDt, bufAtInput,
                   readAtInput, handledAtInput>>
    /\ UNCHANGED <<colorVars, appVars>>

\* handle_key of an arbitrary client of mainloop.
HandleKey(raises) ==
    /\ HandleKeyCall(raises)
    /\ UNCHANGED <<colorVars, appVars>>

\* update_draw of an arbitrary client of mainloop.
Draw(raises) ==
    /\ UNCHANGED frameVars
    /\ DrawCall(raises)
    /\ UNCHANGED <<colorVars, appVars>>

\* mainloop's locals and the observation of the run, before anything ran.
LocalsInit ==
    /\ step = 1 /\ exc = FALSE /\ result = "none"
    /\ last = 0 /\ now = 0 /\ delta_time = 0 /\ ch = ERR
    /\ clk = 0 /\ keybuf = <<>>
    /\ typed = <<>> /\ readSeq = <<>> /\ handled = <<>> /\ draws = 0
    /\ endwinCalls = 0 /\ teardownCalls = 0 /\ cbAfterRestore = FALSE
    /\ quitRead = FALSE /\ iterNo = 0 /\ iterDraws = 0 /\ iterLastWrites = 0
    /\ iterQuit = FALSE /\ iterRaised = FALSE /\ lastAtIterStart = 0
    /\ drawDt = 0 /\ bufAtInput = <<>> /\ readAtInput = 0 /\ handledAtInput = 0
    /\ iterSleeps = 0 /\ sleepArg = 0
    /\ iterFlushes = 0 /\ frameWrites = 0 /\ frameErrors = 0
    /\ errorsBefore = FALSE /\ frameSz = <<0, 0>> /\ frameAll = 0
    /\ frameMsg = ""

\* The state mainloop is entered in: the terminal is in its shell mode.
LoopInit == LocalsInit /\ term = "cooked"

\* clock.py's tunables as the module defines them; no function applied yet.
TunablesInit ==
    /\ USE_24H = TRUE /\ SHOW_SECONDS = TRUE /\ BLINK_COLON = TRUE
    /\ fn = "none" /\ arg = <<>> /\ res = <<>>

\* colors.py after import: _PAIR_CACHE = {}, _NEXT_PAIR_ID = 1.
ColorsInit ==
    /\ PAIR_CACHE = <<>> /\ NEXT_PAIR_ID = 1
    /\ colorStarted = FALSE
    /\ initPairLog = <<>> /\ pairCallStates = {} /\ answers = {}

\* mainloop(update_draw, handle_key) called by an arbitrary client.
Init ==
    /\ pc = "init"
    /\ LoopInit
    /\ ColorsInit /\ COLOR_PAIRS = 256
    /\ app = "client" /\ board = <<>> /\ score = 0 /\ won = FALSE
    /\ TunablesInit

Next ==
    \/ \E ok \in BOOLEAN : InitStep(ok)
    \/ \E ok \in BOOLEAN : Nodelay(ok)
    \/ \E t \in 0..MaxClock : Time0(t)
    \/ \E t \in 0..MaxClock : Timing(t)
    \/ \E t \in 0..MaxClock : Sleep(t)
    \/ SetLast
    \/ Getch
    \/ \E raises \in BOOLEAN : HandleKey(raises)
    \/ \E raises \in BOOLEAN : Draw(raises)
    \/ \E ok \in BOOLEAN : TeardownStep(ok)
    \/ \E ok \in BOOLEAN : Endwin(ok)
    \/ \E k \in Keys : KeyPress(k)

Spec == Init /\ [][Next]_vars

\* ------------------------------------------------- get_color, call by call
\* The colors a client asks for; ("black", "dark") and ("white", "light") are
\* not registered.
BgChoices == {<<"blue", "dark">>, <<"gray", "light">>, <<"black", "dark">>}
FgChoices == {None, <<"white", "base">>, <<"white", "light">>}

\* COLOR_PAIRS of the terminals explored: pair numbers 1..COLOR_PAIRS-1 exist.
PairCeilings == {2, 3, 64}

\* The (fg_idx, bg_idx) tuple get_color resolves a request to.
Resolved(bg, fg) ==
    IF ~Registered(bg) \/ (fg # None /\ ~Registered(fg)) THEN <<>>
    ELSE LET bg_idx == COLOR_IDX[bg[1]][bg[2]]
         IN  <<IF fg = None THEN auto_contrast_fg(bg_idx)
               ELSE COLOR_IDX[fg[1]][fg[2]], bg_idx>>

\* The loop state get_color's init_pair calls are made in.
CallStates(cs) == IF cs.calls > 0 THEN pairCallStates \cup {LoopState}
                  ELSE pairCallStates

\* One call get_color(bg=, fg=, bold=, underline=) made by a draw callback that
\* goes on after an error.  `answers` collects what each request was answered.
GetColor(bg, fg, bold, underline) ==
    /\ UNCHANGED <<paceVars, frameVars>>
    /\ pc = "draw"
    /\ Cardinality(answers) < MaxRequests
    /\ LET r == get_color(ColorState, bg, fg, bold, underline) IN
        /\ PAIR_CACHE' = r.cache
        /\ NEXT_PAIR_ID' = r.next
        /\ initPairLog' = r.log
        /\ pairCallStates' = CallStates(r)
        /\ answers' = answers \cup
               {[bg |-> bg, fg |-> fg, bold |-> bold, underline |-> underline,
                 key |-> Resolved(bg, fg), err |-> r.err,
                 pid |-> IF r.err = "" THEN r.pid ELSE 0,
                 attr |-> IF r.err = "" THEN r.attr ELSE 0,
                 afterError |-> (\E a \in answers : a.err = "curses.error")]}
    /\ UNCHANGED <<loopVars, envVars, histVars, appVars, colorStarted,
                   COLOR_PAIRS>>

\* A draw callback running in a started terminal of some pair ceiling.
InitColors ==
    /\ pc = "draw"
    /\ LocalsInit /\ term = "curses"
    /\ PAIR_CACHE = <<>> /\ NEXT_PAIR_ID = 1
    /\ colorStarted = TRUE /\ COLOR_PAIRS \in PairCeilings
    /\ initPairLog = <<>> /\ pairCallStates = {} /\ answers = {}
    /\ app = "client" /\ board = <<>> /\ score = 0 /\ won = FALSE
    /\ TunablesInit

NextColors ==
    \E bg \in BgChoices, fg \in FgChoices, bold \in BOOLEAN, underline \in BOOLEAN :
        GetColor(bg, fg, bold, underline)

SpecColors == InitColors /\ [][NextColors]_vars

\* ------------------------------------------------------------ games/2048.py
TILE_W == 8
TILE_H == 3
H_GAP == 2
V_GAP == 1
BORDER_SIZE == 1
MENU_PADDING_X == 2
MENU_PADDING_Y == 1
BORDER_BG == <<"gray", "dark">>
BORDER_FG == <<"white", "base">>
GAP_BG == <<"gray", "dark">>
GAP_FG == <<"gray", "dark">>
MENU_BG == <<"gray", "base">>
MENU_FG == <<"black", "base">>

\* The key codes handle_key tests ch against: curses.KEY_* and ord() of letters.
LeftKeys == {260, 97, 104}
RightKeys == {261, 100, 108}
UpKeys == {259, 119, 107}
DownKeys == {258, 115, 106}
ResetKeys == {114}

\* [[0] * SIZE for _ in range(SIZE)]
EmptyBoard == [r \in 1..SIZE |-> [c \in 1..SIZE |-> 0]]

\* spawn(b): every board random.choice and random.random can leave.
spawn(b) ==
    LET empties == {rc \in (1..SIZE) \X (1..SIZE) : b[rc[1]][rc[2]] = 0} IN
    IF empties = {} THEN {b}
    ELSE {[b EXCEPT ![rc[1]][rc[2]] = v] : rc \in empties, v \in {2, 4}}

\* new_board()
new_board == UNION {spawn(b) : b \in spawn(EmptyBoard)}

\* The while loop of compress_line from position i of xs: (out, gained).
RECURSIVE merge_from(_, _)
merge_from(xs, i) ==
    IF i > Len(xs) THEN [out |-> <<>>, gained |-> 0]
    ELSE IF i + 1 <= Len(xs) /\ xs[i] = xs[i + 1]
         THEN LET rest == merge_from(xs, i + 2)
              IN  [out |-> <<xs[i] * 2>> \o rest.out,
                   gained |-> xs[i] * 2 + rest.gained]
         ELSE LET rest == merge_from(xs, i + 1)
              IN  [out |-> <<xs[i]>> \o rest.out, gained |-> rest.gained]

\* Mutant: the merged tiles are merged once more.
compress_line_remerge(line) ==
    LET xs == SelectSeq(line, LAMBDA x : x # 0)
        m1 == merge_from(xs, 1)
        m == merge_from(m1.out, 1)
        out == m.out \o [k \in 1..(Len(line) - Len(m.out)) |-> 0]
    IN  [line |-> out, moved |-> (out # line), gained |-> m1.gained + m.gained]

\* compress_line(line): (new_line, moved, gained_score)
compress_line(line) ==
    LET xs == SelectSeq(line, LAMBDA x : x # 0)
        m == merge_from(xs, 1)
        out == m.out \o [k \in 1..(Len(line) - Len(m.out)) |-> 0]
    IN  [line |-> out, moved |-> (out # line), gained |-> m.gained]

RECURSIVE SumGained(_, _)
SumGained(rows, r) ==
    IF r > Len(rows) THEN 0 ELSE rows[r].gained + SumGained(rows, r + 1)

\* move_left(b): (board, moved, gained)
move_left(b) ==
    LET rows == [r \in 1..SIZE |-> compress_line(b[r])] IN
    [board |-> [r \in 1..SIZE |-> rows[r].line],
     moved |-> (\E r \in 1..SIZE : rows[r].moved),
     gained |-> SumGained(rows, 1)]

\* list(reversed(line))
reversed(line) == [k \in 1..Len(line) |-> line[Len(line) + 1 - k]]

\* move_right(b)
move_right(b) ==
    LET rows == [r \in 1..SIZE |-> compress_line(reversed(b[r]))] IN
    [board |-> [r \in 1..SIZE |-> reversed(rows[r].line)],
     moved |-> (\E r \in 1..SIZE : rows[r].moved),
     gained |-> SumGained(rows, 1)]

\* transpose(b)
transpose(b) == [c \in 1..SIZE |-> [r \in 1..SIZE |-> b[r][c]]]

\* move_up(b)
move_up(b) ==
    LET m == move_left(transpose(b)) IN [m EXCEPT !.board = transpose(m.board)]

\* move_down(b)
move_down(b) ==
    LET m == move_right(transpose(b)) IN [m EXCEPT !.board = transpose(m.board)]

\* max_tile(b)
max_tile(b) ==
    CHOOSE v \in {b[r][c] : r \in 1..SIZE, c \in 1..SIZE} :
        \A r \in 1..SIZE, c \in 1..SIZE : b[r][c] <= v

\* Mutant: a tile is spawned after every direction key.
game_handle_key_spawn_always(b, sc, w, c) ==
    IF c \in ResetKeys
    THEN {[board |-> nb, score |-> 0, won |-> FALSE] : nb \in new_board}
    ELSE LET m == CASE c \in LeftKeys -> move_left(b)
                    [] c \in RightKeys -> move_right(b)
                    [] c \in UpKeys -> move_up(b)
                    [] c \in DownKeys -> move_down(b)
                    [] OTHER -> [board |-> b, moved |-> FALSE, gained |-> 0]
         IN  IF m.moved \/ c \in LeftKeys \cup RightKeys \cup UpKeys \cup DownKeys
             THEN {[board |-> nb, score |-> sc + m.gained,
                    won |-> (w \/ max_tile(nb) >= 2048)] : nb \in spawn(m.board)}
             ELSE {[board |-> m.board, score |-> sc, won |-> w]}

\* handle_key(stdscr, ch): every (board, score, won) it can leave.
game_handle_key(b, sc, w, c) ==
    IF c \in ResetKeys
    THEN {[board |-> nb, score |-> 0, won |-> FALSE] : nb \in new_board}
    ELSE LET m == CASE c \in LeftKeys -> move_left(b)
                    [] c \in RightKeys -> move_right(b)
                    [] c \in UpKeys -> move_up(b)
                    [] c \in DownKeys -> move_down(b)
                    [] OTHER -> [board |-> b, moved |-> FALSE, gained |-> 0]
         IN  IF m.moved
             THEN {[board |-> nb, score |-> sc + m.gained,
                    won |-> (w \/ max_tile(nb) >= 2048)] : nb \in spawn(m.board)}
             ELSE {[board |-> m.board, score |-> sc, won |-> w]}

\* v.bit_length()
RECURSIVE bit_length(_)
bit_length(v) == IF v = 0 THEN 0 ELSE 1 + bit_length(v \div 2)

\* The cycle of named tile backgrounds in update_draw.
TilePalette ==
    << <<"blue", "light">>, <<"cyan", "base">>, <<"green", "base">>,
       <<"yellow", "base">>, <<"orange", "base">>, <<"magenta", "base">>,
       <<"red", "base">>, <<"purple", "base">>, <<"gold", "base">>,
       <<"pink", "base">>, <<"lime", "base">>, <<"blue", "base">>,
       <<"cyan", "light">>, <<"green", "light">>, <<"yellow", "light">>,
       <<"orange", "light">> >>

\* tile_bg for tile value v
tile_bg(v) ==
    IF v = 0 THEN <<"gray", "base">>
    ELSE TilePalette[(((bit_length(v) - 1) - 1) % Len(TilePalette)) + 1]

\* 1 << k
RECURSIVE Pow2(_)
Pow2(k) == IF k = 0 THEN 1 ELSE 2 * Pow2(k - 1)

\* The values a cell can hold: empty, or a power of two; the exponents
\* 1..Len(TilePalette)+1 go once round the cycle of tile backgrounds and on
\* to its first entry again.
TileValues == {0} \cup {Pow2(k) : k \in 1..(Len(TilePalette) + 1)}

\* Every (fg_idx, bg_idx) update_draw can ask a pair for: the menu, border
\* and gap colors, and each tile background with its auto-contrast foreground.
GamePairKeys ==
    {Resolved(MENU_BG, MENU_FG), Resolved(BORDER_BG, BORDER_FG),
     Resolved(GAP_BG, GAP_FG)}
    \cup {Resolved(tile_bg(v), None) : v \in TileValues}

\* `Too small?` for a terminal of h rows and w columns.
too_small(h, w) ==
    LET menu_height == 3 + 2 * MENU_PADDING_Y
        gridw == SIZE * TILE_W + (SIZE - 1) * H_GAP
        gridh == SIZE * TILE_H + (SIZE - 1) * V_GAP
        outer_w == gridw + 2 * BORDER_SIZE + 2
        outer_h == gridh + 2 * BORDER_SIZE
        starty == 0 + menu_height + 1
    IN  h < starty + outer_h + 1 \/ w < outer_w

\* The tiles in the order update_draw visits them.
RECURSIVE tile_requests(_, _)
tile_requests(b, n) ==
    IF n = SIZE * SIZE THEN <<>>
    ELSE <<[bg |-> tile_bg(b[(n \div SIZE) + 1][(n % SIZE) + 1]), fg |-> None]>>
             \o tile_requests(b, n + 1)

\* The get_color calls of update_draw, in order, for board b on an h x w terminal.
game_requests(b, h, w) ==
    <<[bg |-> MENU_BG, fg |-> MENU_FG]>>
    \o (IF too_small(h, w) THEN <<>>
        ELSE <<[bg |-> BORDER_BG, fg |-> BORDER_FG], [bg |-> GAP_BG, fg |-> GAP_FG]>>
             \o tile_requests(b, 0))

\* A run of get_color calls, n of them already made; the first that raises
\* ends the run.  The result has the state of colors.py and the calls returned.
RECURSIVE run_from(_, _, _)
run_from(cs, reqs, n) ==
    IF cs.err # "" THEN [cs |-> cs, done |-> n - 1]
    ELSE IF reqs = <<>> THEN [cs |-> cs, done |-> n]
    ELSE run_from(get_color(cs, Head(reqs).bg, Head(reqs).fg, FALSE, FALSE),
                  Tail(reqs), n + 1)

\* A run of get_color calls: what it leaves in colors.py.
run_requests(cs, reqs) == run_from(cs, reqs, 0).cs

\* --- drawing: the addstr calls of a frame ---
\* max(0, a)
Max0(a) == IF a > 0 THEN a ELSE 0

\* stdscr.addstr(y, x, text, attr) of n characters on a surface of h rows and
\* w columns: curses.error when (y, x) is outside the surface, or when the text,
\* which wraps at the right margin, runs up to the bottom-right corner.
addstr_ok(h, w, y, x, n) ==
    /\ 0 <= y /\ y < h /\ 0 <= x /\ x < w
    /\ n < (h - 1 - y) * w + (w - x)

\* str(n) for n >= 0, as its characters.
RECURSIVE str(_)
str(n) ==
    LET d == <<"0", "1", "2", "3", "4", "5", "6", "7", "8", "9">>[(n % 10) + 1]
    IN  IF n < 10 THEN <<d>> ELSE Append(str(n \div 10), d)

\* s[:4]
first4(s) == SubSeq(s, 1, IF Len(s) < 4 THEN Len(s) ELSE 4)

\* fmt_tile(v)
fmt_tile(v) ==
    IF v = 0 THEN <<".">>
    ELSE IF v >= 1000000000 THEN first4(Append(str(v \div 1000000000), "B"))
    ELSE IF v >= 1000000 THEN first4(Append(str(v \div 1000000), "M"))
    ELSE IF v >= 1000 THEN first4(Append(str(v \div 1000), "K"))
    ELSE first4(str(v))

\* Mutant: only neighbours in the same row are compared.
has_moves_rows_only(b) ==
    \/ \E r \in 1..SIZE : \E c \in 1..SIZE : b[r][c] = 0
    \/ \E r \in 1..SIZE, c \in 1..SIZE :
          c + 1 <= SIZE /\ b[r][c + 1] = b[r][c]

\* has_moves(b)
has_moves(b) ==
    \/ \E r \in 1..SIZE : \E c \in 1..SIZE : b[r][c] = 0
    \/ \E r \in 1..SIZE, c \in 1..SIZE :
          \/ r + 1 <= SIZE /\ b[r + 1][c] = b[r][c]
          \/ c + 1 <= SIZE /\ b[r][c + 1] = b[r][c]

\* The texts update_draw shows ('-' stands for the dash and '~' for the
\* ellipsis of the source, one character each).
title == "2048 - arrows/WASD (HJKL) | r: reset | q/ESC: quit"
help1 == "Combine tiles to reach 2048. One merge per tile per move."
warn == "Terminal too small - enlarge window"
msg_over == "Game Over - press r to restart or q to quit"
msg_won == "You made 2048! Keep going~ (r to reset)"

\* One addstr call: row, column, number of characters.
Write(y, x, n) == [y |-> y, x |-> x, n |-> n]

\* draw_rect(stdscr, y, x, h, w, attr): one addstr per row.
draw_rect(y, x, hh, ww) == [yy \in 1..hh |-> Write(y + (yy - 1), x, Max0(ww))]

\* draw_text_center(stdscr, y, x, w, text, attr) for a text of n characters.
draw_text_center(y, x, ww, n) == <<Write(y, x + Max0((ww - n) \div 2), n)>>

\* len(s) for the three menu lines.
menu_lens(sc) == <<Len(title), Len(help1), Len("Score: ") + Len(str(sc))>>

\* max(len(s) for s in lines) + 2 * MENU_PADDING_X
menu_width(sc) ==
    LET ls == menu_lens(sc)
        longest == CHOOSE n \in {ls[i] : i \in 1..3} : \A i \in 1..3 : ls[i] <= n
    IN  longest + 2 * MENU_PADDING_X

\* The writes of the menu panel: the filled rectangle, then the three lines,
\* each s.ljust(menu_width - 2 * MENU_PADDING_X).
menu_writes(sc, w) ==
    LET mw == menu_width(sc)
        menu_x == Max0((w - mw) \div 2)
        menu_height == 3 + 2 * MENU_PADDING_Y
        ls == menu_lens(sc)
        ljust(n) == IF n < mw - 2 * MENU_PADDING_X
                    THEN mw - 2 * MENU_PADDING_X ELSE n
    IN  draw_rect(0, menu_x, menu_height, mw)
        \o [i \in 1..3 |-> Write(MENU_PADDING_Y + (i - 1),
                                menu_x + MENU_PADDING_X, ljust(ls[i]))]

\* The writes of the tile at row r, column c (from 0) of board b.
tile_writes(b, r, c, inner_y, inner_x) ==
    LET v == b[r + 1][c + 1]
        s == fmt_tile(v)
        x == inner_x + c * (TILE_W + H_GAP)
        y == inner_y + r * (TILE_H + V_GAP)
    IN  [dy \in 1..TILE_H |-> Write(y + (dy - 1), x, TILE_W)]
        \o <<Write(y + TILE_H \div 2, x + (TILE_W - Len(s)) \div 2, Len(s))>>

\* The win/lose message under the board, if any.
msg_writes(b, wn, y, w) ==
    IF ~has_moves(b) THEN draw_text_center(y, 0, w, Len(msg_over))
    ELSE IF wn THEN draw_text_center(y, 0, w, Len(msg_won))
    ELSE <<>>

\* The addstr calls of update_draw, grouped by the get_color call they follow:
\* element i holds the writes made after request i of game_requests returned.
game_writes(b, sc, wn, h, w) ==
    LET menu_height == 3 + 2 * MENU_PADDING_Y
        gridw == SIZE * TILE_W + (SIZE - 1) * H_GAP
        gridh == SIZE * TILE_H + (SIZE - 1) * V_GAP
        outer_w == gridw + 2 * BORDER_SIZE + 2
        outer_h == gridh + 2 * BORDER_SIZE
        starty == 0 + menu_height + 1
        startx == Max0((w - outer_w) \div 2)
        inner_y == starty + BORDER_SIZE
        inner_x == startx + BORDER_SIZE + 1
        last_tile == SIZE * SIZE - 1
    IN  IF too_small(h, w)
        THEN << menu_writes(sc, w) \o draw_text_center(starty, 0, w, Len(warn)) >>
        ELSE << menu_writes(sc, w),
                draw_rect(starty, startx, outer_h, outer_w),
                draw_rect(inner_y, inner_x, gridh, gridw) >>
             \o [n \in 1..(SIZE * SIZE) |->
                    tile_writes(b, (n - 1) \div SIZE, (n - 1) % SIZE, inner_y, inner_x)
                    \o (IF n - 1 = last_tile
                        THEN msg_writes(b, wn, inner_y + gridh + 1, w)
                        ELSE <<>>)]

\* The writes of the first k groups, in order.
RECURSIVE writes_upto(_, _)
writes_upto(groups, k) ==
    IF k = 0 THEN <<>> ELSE writes_upto(groups, k - 1) \o groups[k]

\* How many of the writes ws raise curses.error on an h x w surface.
discarded(ws, h, w) ==
    Cardinality({i \in 1..Len(ws) : ~addstr_ok(h, w, ws[i].y, ws[i].x, ws[i].n)})

\* Mutant: the too-small return leaves without refresh.
game_refreshes_full_only(small) == IF small THEN 0 ELSE 1

\* stdscr.refresh() calls on update_draw's two return paths: the too-small
\* early return and the end of the function.
game_refreshes(small) == IF small THEN 1 ELSE 1

\* Mutant: the first curses.error ends the frame's writes (no try/except
\* around addstr, the error caught further out).
made_until_error(ws, h, w) ==
    LET bad == {i \in 1..Len(ws) : ~addstr_ok(h, w, ws[i].y, ws[i].x, ws[i].n)}
    IN  IF bad = {} THEN Len(ws) ELSE CHOOSE i \in bad : \A j \in bad : i <= j

\* The addstr calls made of ws: each is in its own try/except curses.error, so
\* all of them.
made(ws, h, w) == Len(ws)

\* The win/lose message update_draw writes for board b on an h x w terminal:
\* none on the too-small return, else the game-over text when has_moves is
\* false, else the 2048 text when won.
frame_msg(b, wn, h, w) ==
    IF too_small(h, w) THEN ""
    ELSE IF ~has_moves(b) THEN msg_over
    ELSE IF wn THEN msg_won
    ELSE ""

\* What a frame leaves to observe: the surface size, the writes its code
\* issues, those made and those discarded, the refresh calls.
FrameDone(sz, ws, refreshes, msg) ==
    /\ frameSz' = sz
    /\ frameMsg' = msg
    /\ frameAll' = Len(ws)
    /\ frameWrites' = made(ws, sz[1], sz[2])
    /\ frameErrors' = discarded(SubSeq(ws, 1, made(ws, sz[1], sz[2])), sz[1], sz[2])
    /\ iterFlushes' = iterFlushes + refreshes
    /\ errorsBefore' = (errorsBefore \/ frameErrors > 0)

\* What a run of get_color calls leaves in colors.py and in the terminal.
ColorsAfter(r) ==
    /\ PAIR_CACHE' = r.cache
    /\ NEXT_PAIR_ID' = r.next
    /\ initPairLog' = r.log
    /\ pairCallStates' = CallStates(r)
    /\ UNCHANGED <<colorStarted, COLOR_PAIRS, answers>>

\* Importing games/2048.py: board = new_board(); score = 0; won = False; then
\* mainloop(update_draw, handle_key, fps=60) is called.
GameImport ==
    /\ UNCHANGED <<paceVars, frameVars>>
    /\ pc = "import" /\ app = "2048"
    /\ board' \in new_board
    /\ score' = 0
    /\ won' = FALSE
    /\ pc' = "init"
    /\ UNCHANGED <<step, exc, result, last, now, delta_time, ch, app>>
    /\ UNCHANGED <<envVars, histVars, colorVars, clockVars, pureVars>>

\* handle_key of 2048, called by mainloop; it does not raise.
GameHandleKey ==
    /\ app = "2048" /\ pc = "handle_key"
    /\ HandleKeyCall(FALSE)
    /\ \E g \in game_handle_key(board, score, won, ch) :
          board' = g.board /\ score' = g.score /\ won' = g.won
    /\ UNCHANGED <<app, colorVars, clockVars, pureVars>>

\* update_draw of 2048 on a terminal of size sz = (h, w); it raises when a
\* get_color call does.
GameDraw(sz) ==
    /\ app = "2048" /\ pc = "draw"
    /\ \E run \in {run_from(ColorState, game_requests(board, sz[1], sz[2]), 0)} :
       \E ws \in {writes_upto(game_writes(board, score, won, sz[1], sz[2]),
                              run.done)} :
        /\ ColorsAfter(run.cs)
        /\ DrawCall(run.cs.err # "")
        /\ FrameDone(sz, ws,
                     IF run.cs.err # "" THEN 0
                     ELSE game_refreshes(too_small(sz[1], sz[2])),
                     IF run.cs.err # "" THEN ""
                     ELSE frame_msg(board, won, sz[1], sz[2]))
    /\ UNCHANGED appVars

\* ------------------------------------------------------------ apps/clock.py
DIGIT_FG == <<"white", "base">>
COLON_FG == <<"gold", "base">>
DATE_FG == <<"gray", "light">>

\* _attr_for(fg_cfg, None): the request it passes to get_color.
attr_for(fg_cfg) == [bg |-> <<"black", "base">>, fg |-> fg_cfg]

\* Importing apps/clock.py: ATTR_DIGIT, ATTR_COLON and ATTR_DATE are computed at
\* module level, before mainloop is called; an exception ends the program.
ClockImport ==
    /\ UNCHANGED <<paceVars, frameVars>>
    /\ pc = "import" /\ app = "clock"
    /\ LET r == run_requests(ColorState,
                    <<attr_for(DIGIT_FG), attr_for(COLON_FG), attr_for(DATE_FG)>>) IN
        /\ ColorsAfter(r)
        /\ IF r.err # ""
           THEN Propagate
           ELSE pc' = "init" /\ UNCHANGED <<step, exc, result, teardownCalls>>
    /\ UNCHANGED <<last, now, delta_time, ch, envVars, appVars>>
    /\ UNCHANGED <<typed, readSeq, handled, draws, endwinCalls, cbAfterRestore,
                   quitRead, iterNo, iterDraws, iterLastWrites, iterQuit,
                   iterRaised, lastAtIterStart, drawDt, bufAtInput, readAtInput,
                   handledAtInput>>

\* Big-font digits: 0/1 maps, a row is the sequence of its characters.
DIGITS ==
    [dch \in {"0", "1", "2", "3", "4", "5", "6", "7", "8", "9"} |->
        CASE dch = "0" ->
            << <<"0", "1", "1", "1", "1", "1", "0">>,
            <<"1", "1", "0", "0", "0", "1", "1">>,
            <<"1", "1", "0", "0", "1", "1", "1">>,
            <<"1", "1", "1", "1", "0", "1", "1">>,
            <<"1", "1", "1", "0", "0", "1", "1">>,
            <<"1", "1", "0", "0", "0", "1", "1">>,
            <<"0", "1", "1", "1", "1", "1", "0">> >>
          [] dch = "1" ->
            << <<"0", "0", "1", "1", "0", "0", "0">>,
            <<"0", "1", "1", "1", "0", "0", "0">>,
            <<"0", "0", "1", "1", "0", "0", "0">>,
            <<"0", "0", "1", "1", "0", "0", "0">>,
            <<"0", "0", "1", "1", "0", "0", "0">>,
            <<"0", "0", "1", "1", "0", "0", "0">>,
            <<"1", "1", "1", "1", "1", "1", "1">> >>
          [] dch = "2" ->
            << <<"0", "1", "1", "1", "1", "1", "0">>,
            <<"1", "1", "0", "0", "0", "0", "1">>,
            <<"0", "0", "0", "0", "0", "0", "1">>,
            <<"0", "0", "0", "1", "1", "1", "0">>,
            <<"0", "0", "1", "1", "0", "0", "0">>,
            <<"0", "1", "1", "0", "0", "0", "0">>,
            <<"1", "1", "1", "1", "1", "1", "1">> >>
          [] dch = "3" ->
            << <<"1", "1", "1", "1", "1", "1", "0">>,
            <<"0", "0", "0", "0", "0", "1", "1">>,
            <<"0", "0", "0", "0", "0", "1", "1">>,
            <<"0", "0", "1", "1", "1", "1", "0">>,
            <<"0", "0", "0", "0", "0", "1", "1">>,
            <<"0", "0", "0", "0", "0", "1", "1">>,
            <<"1", "1", "1", "1", "1", "1", "0">> >>
          [] dch = "4" ->
            << <<"0", "0", "0", "1", "1", "1", "0">>,
            <<"0", "0", "1", "1", "1", "1", "0">>,
            <<"0", "1", "1", "0", "1", "1", "0">>,
            <<"1", "1", "0", "0", "1", "1", "0">>,
            <<"1", "1", "1", "1", "1", "1", "1">>,
            <<"0", "0", "0", "0", "1", "1", "0">>,
            <<"0", "0", "0", "0", "1", "1", "0">> >>
          [] dch = "5" ->
            << <<"1", "1", "1", "1", "1", "1", "1">>,
            <<"1", "1", "0", "0", "0", "0", "0">>,
            <<"1", "1", "1", "1", "1", "1", "0">>,
            <<"0", "0", "0", "0", "0", "1", "1">>,
            <<"0", "0", "0", "0", "0", "1", "1">>,
            <<"1", "1", "0", "0", "0", "1", "1">>,
            <<"0", "1", "1", "1", "1", "1", "0">> >>
          [] dch = "6" ->
            << <<"0", "0", "1", "1", "1", "1", "0">>,
            <<"0", "1", "1", "0", "0", "0", "0">>,
            <<"1", "1", "0", "0", "0", "0", "0">>,
            <<"1", "1", "1", "1", "1", "1", "0">>,
            <<"1", "1", "0", "0", "0", "1", "1">>,
            <<"1", "1", "0", "0", "0", "1", "1">>,
            <<"0", "1", "1", "1", "1", "1", "0">> >>
          [] dch = "7" ->
            << <<"1", "1", "1", "1", "1", "1", "1">>,
            <<"0", "0", "0", "0", "0", "1", "1">>,
            <<"0", "0", "0", "0", "1", "1", "0">>,
            <<"0", "0", "0", "1", "1", "0", "0">>,
            <<"0", "0", "1", "1", "0", "0", "0">>,
            <<"0", "0", "1", "1", "0", "0", "0">>,
            <<"0", "0", "1", "1", "0", "0", "0">> >>
          [] dch = "8" ->
            << <<"0", "1", "1", "1", "1", "1", "0">>,
            <<"1", "1", "0", "0", "0", "1", "1">>,
            <<"1", "1", "0", "0", "0", "1", "1">>,
            <<"0", "1", "1", "1", "1", "1", "0">>,
            <<"1", "1", "0", "0", "0", "1", "1">>,
            <<"1", "1", "0", "0", "0", "1", "1">>,
            <<"0", "1", "1", "1", "1", "1", "0">> >>
          [] dch = "9" ->
            << <<"0", "1", "1", "1", "1", "1", "0">>,
            <<"1", "1", "0", "0", "0", "1", "1">>,
            <<"1", "1", "0", "0", "0", "1", "1">>,
            <<"0", "1", "1", "1", "1", "1", "1">>,
            <<"0", "0", "0", "0", "0", "1", "1">>,
            <<"0", "0", "0", "0", "1", "1", "0">>,
            <<"0", "1", "1", "1", "1", "0", "0">> >>]

COLON ==
    << <<"0", "0", "0", "0", "0", "0", "0">>,
    <<"0", "0", "1", "1", "0", "0", "0">>,
    <<"0", "0", "1", "1", "0", "0", "0">>,
    <<"0", "0", "0", "0", "0", "0", "0">>,
    <<"0", "0", "1", "1", "0", "0", "0">>,
    <<"0", "0", "1", "1", "0", "0", "0">>,
    <<"0", "0", "0", "0", "0", "0", "0">> >>

\* len(next(iter(DIGITS.values()))): the number of rows of the first glyph, for
\* both the height and the width.
DIGIT_H == Len(DIGITS["0"])
DIGIT_W == Len(DIGITS["0"])

PADDING_X == 2
PADDING_Y == 1
DATE_BELOW == TRUE

\* f"{n:02d}" for 0 <= n < 100, as its characters.
two_digits(n) == str(n \div 10) \o str(n % 10)

\* tstr of update_draw for the time tm = (hour, minute, second).
clock_tstr(tm) ==
    LET hour == IF ~USE_24H
                THEN (IF tm[1] % 12 = 0 THEN 12 ELSE tm[1] % 12)
                ELSE tm[1]
        hhmm == two_digits(hour) \o <<":">> \o two_digits(tm[2])
    IN  IF SHOW_SECONDS THEN hhmm \o <<":">> \o two_digits(tm[3]) ELSE hhmm

\* colon_on of update_draw.
clock_colon_on(tm) == IF BLINK_COLON THEN tm[3] % 2 = 0 ELSE TRUE

\* The glyph render_big_text appends for character c.
glyph_of(c, colon_on) ==
    IF c = ":"
    THEN (IF colon_on THEN COLON
          ELSE [r \in 1..DIGIT_H |-> [k \in 1..DIGIT_W |-> "0"]])
    ELSE DIGITS[c]

\* The addstr calls of row r (from 0) of glyph i (from 0): one per "1" bit.
glyph_row_writes(text, colon_on, top, left, r, i) ==
    LET bits == glyph_of(text[i + 1], colon_on)[r + 1]
        x == left + i * (DIGIT_W + 2)
        on == SelectSeq([c \in 1..Len(bits) |-> c - 1], LAMBDA c : bits[c + 1] = "1")
    IN  [k \in 1..Len(on) |-> Write(top + r, x + on[k], 1)]

\* The addstr calls of rows r.. of the text, glyphs i.. first.
RECURSIVE big_text_from(_, _, _, _, _, _)
big_text_from(text, colon_on, top, left, r, i) ==
    IF r = DIGIT_H THEN <<>>
    ELSE IF i = Len(text) THEN big_text_from(text, colon_on, top, left, r + 1, 0)
    ELSE glyph_row_writes(text, colon_on, top, left, r, i)
         \o big_text_from(text, colon_on, top, left, r, i + 1)

\* render_big_text(stdscr, top, left, text, attr_digit, attr_colon, colon_on)
render_big_text(top, left, text, colon_on) ==
    big_text_from(text, colon_on, top, left, 0, 0)

\* now.strftime("%a %Y-%m-%d"): the date is not part of the model, its length is.
datestr == "Tue 2026-11-03"

\* The addstr calls of clock.py's update_draw on an h x w surface at time tm.
clock_writes(h, w, tm) ==
    LET tstr == clock_tstr(tm)
        glyphs == Len(tstr)
        clock_w == glyphs * DIGIT_W + (glyphs - 1) * 2
        area_w == clock_w + 2 * PADDING_X
        area_h == DIGIT_H + 2 * PADDING_Y + (IF DATE_BELOW THEN 1 ELSE 0)
        top == Max0((h - area_h) \div 2) + PADDING_Y
        left == Max0((w - area_w) \div 2) + PADDING_X
    IN  render_big_text(top, left, tstr, clock_colon_on(tm))
        \o (IF DATE_BELOW
            THEN <<Write(top + DIGIT_H, Max0((w - Len(datestr)) \div 2), Len(datestr))>>
            ELSE <<>>)

\* Mutant: refresh only when the whole clock fitted.
clock_refreshes_if_fits(errors) == IF errors > 0 THEN 0 ELSE 1

\* stdscr.refresh() calls of clock.py's update_draw: one, at its end.
clock_refreshes(errors) == 1

\* update_draw of the clock on a surface of size sz at time tm = datetime.now().
ClockDraw(sz, tm) ==
    /\ app = "clock" /\ pc = "draw"
    /\ \E ws \in {clock_writes(sz[1], sz[2], tm)} :
        /\ DrawCall(FALSE)
        /\ FrameDone(sz, ws, clock_refreshes(discarded(ws, sz[1], sz[2])), "")
    /\ UNCHANGED <<colorVars, appVars>>

\* The letters clock.py's handle_key tests ch against.
KEY_s == 115
KEY_t == 116

\* handle_key of the clock: q and ESC raise SystemExit, s, b and t toggle a
\* tunable.
ClockHandleKey ==
    /\ app = "clock" /\ pc = "handle_key"
    /\ HandleKeyCall(ch \in {KEY_q, KEY_ESC})
    /\ SHOW_SECONDS' = IF ch = KEY_s THEN ~SHOW_SECONDS ELSE SHOW_SECONDS
    /\ BLINK_COLON' = IF ch = KEY_b THEN ~BLINK_COLON ELSE BLINK_COLON
    /\ USE_24H' = IF ch = KEY_t THEN ~USE_24H ELSE USE_24H
    /\ UNCHANGED <<app, board, score, won, pureVars, colorVars>>

\* ------------------------------------------------------- the applications
\* Keys typed into 2048, terminal sizes and pair ceilings explored.
GameKeys == {260, 259, 114, 120, KEY_q}
TermSizes == {<<24, 80>>, <<10, 80>>, <<16, 22>>, <<3, 80>>}
AppSizes == {<<24, 80>>, <<10, 80>>}
AppPairCeilings == {3, 64}

\* `python -m PiGames.apps.clock` or `python -m PiGames.games.2048` starts.
InitApps ==
    /\ pc = "import"
    /\ LoopInit
    /\ ColorsInit /\ COLOR_PAIRS \in AppPairCeilings
    /\ app \in {"clock", "2048"}
    /\ board = <<>> /\ score = 0 /\ won = FALSE
    /\ TunablesInit

\* The applications run frame by frame at the target pace, on a terminal whose
\* mode switches succeed.
NextApps ==
    \/ ClockImport
    \/ GameImport
    \/ InitStep(TRUE)
    \/ Nodelay(TRUE)
    \/ Time0(clk)
    \/ Timing(clk)
    \/ Sleep(clk + SleepFor)
    \/ SetLast
    \/ Getch
    \/ GameHandleKey
    \/ \E sz \in AppSizes : GameDraw(sz)
    \/ TeardownStep(TRUE)
    \/ Endwin(TRUE)
    \/ \E k \in GameKeys : app = "2048" /\ KeyPress(k)

SpecApps == InitApps /\ [][NextApps]_vars

\* ---------------------------------------------- the draw callbacks at work
\* Keys typed into the clock, and the times of day its frames are drawn at.
ClockKeys == {KEY_s, KEY_b, KEY_t, KEY_q}
ClockTimes == {<<9, 5, 7>>, <<23, 59, 58>>, <<0, 0, 0>>}

\* A board without a move left: 2 and 4 alternate, nothing was ever merged.
Checker == [r \in 1..SIZE |-> [c \in 1..SIZE |-> IF (r + c) % 2 = 0 THEN 2 ELSE 4]]

\* Boards 2048 shows at score 0: a new game's, and the game-over board.
ShownBoards == new_board \cup {Checker}

\* The three module-level requests of clock.py answered by a started terminal.
ClockAttrs ==
    run_requests([cache |-> <<>>, next |-> 1, log |-> <<>>, calls |-> 0,
                  err |-> "", attr |-> 0, pid |-> 0],
                 <<attr_for(DIGIT_FG), attr_for(COLON_FG), attr_for(DATE_FG)>>)

\* mainloop has initialized the terminal and is about to enter its loop, with
\* the callbacks of the clock (its three attributes computed) or of 2048 (a
\* game at score 0 that is watched, not played).
InitFrames ==
    /\ pc = "time0"
    /\ LocalsInit /\ term = "curses"
    /\ colorStarted = TRUE /\ COLOR_PAIRS = 256
    /\ app \in {"clock", "2048"}
    /\ IF app = "clock"
       THEN /\ PAIR_CACHE = ClockAttrs.cache /\ NEXT_PAIR_ID = ClockAttrs.next
            /\ initPairLog = ClockAttrs.log
            /\ board = <<>>
       ELSE /\ PAIR_CACHE = <<>> /\ NEXT_PAIR_ID = 1
            /\ initPairLog = <<>>
            /\ board \in ShownBoards
    /\ pairCallStates = {} /\ answers = {}
    /\ score = 0 /\ won = FALSE
    /\ TunablesInit

\* Frames at the target pace, on a terminal that is resized between them.
NextFrames ==
    \/ Time0(clk)
    \/ Timing(clk)
    \/ Sleep(clk + SleepFor)
    \/ SetLast
    \/ Getch
    \/ ClockHandleKey
    \/ \E sz \in TermSizes : GameDraw(sz)
    \/ \E sz \in TermSizes, tm \in ClockTimes : ClockDraw(sz, tm)
    \/ TeardownStep(TRUE)
    \/ Endwin(TRUE)
    \/ \E k \in ClockKeys : app = "clock" /\ KeyPress(k)

SpecFrames == InitFrames /\ [][NextFrames]_vars

\* ------------------------------------------------ the functions, call by call
\* What a call of a function leaves alone: fn, arg and res hold the function
\* called, its argument and what it returned.
restVars == <<loopVars, envVars, histVars, colorVars, app, board, score, won,
              clockVars, paceVars, frameVars>>

\* _build_xterm256()
BuildPalette ==
    /\ fn = "none"
    /\ fn' = "_build_xterm256" /\ arg' = <<>> /\ res' = build_xterm256
    /\ UNCHANGED restVars

\* COLOR_IDX[name][variant], for a registered name and variant; a first
\* lookup, or one that follows another.
LookupIndex(name, vname) ==
    /\ fn \in {"none", "COLOR_IDX"}
    /\ fn' = "COLOR_IDX" /\ arg' = <<name, vname>>
    /\ res' = COLOR_IDX[name][vname]
    /\ UNCHANGED restVars

\* _auto_contrast_fg(bg_idx)
AutoContrast(bg_idx) ==
    /\ fn = "none"
    /\ fn' = "_auto_contrast_fg" /\ arg' = bg_idx
    /\ res' = auto_contrast_fg(bg_idx)
    /\ UNCHANGED restVars

\* The tiles of the lines compress_line is tried on, and the lines.
LineTiles == {0, 2, 4, 8}
Lines == [1..LineLen -> LineTiles]

\* compress_line(line)
CompressLine(tiles) ==
    /\ fn = "none"
    /\ fn' = "compress_line" /\ arg' = tiles /\ res' = compress_line(tiles)
    /\ UNCHANGED restVars

\* A game won with tiles of 2 only, its 2048 tile and the tile just spawned;
\* and a game one merge away from it.
WonGame ==
    [board |-> [EmptyBoard EXCEPT ![1][1] = 2048, ![1][2] = 2],
     score |-> 20480, won |-> TRUE]
NearlyWonGame ==
    [board |-> [EmptyBoard EXCEPT ![1][1] = 1024, ![1][2] = 1024],
     score |-> 18432, won |-> FALSE]

\* The games handle_key is tried on: new games, games one unmerged move old,
\* the game-over board, and the two above.
Games ==
    {[board |-> b, score |-> 0, won |-> FALSE] :
        b \in ShownBoards \cup UNION {spawn(nb) : nb \in new_board}}
    \cup {WonGame, NearlyWonGame}

\* The keys tried: the four arrows, 'a', 'r', and two keys 2048 has no use
\* for, 'x' and 'q'.
HandleKeys == {260, 261, 259, 258, KEY_a, 114, 120, KEY_q}

\* handle_key(stdscr, ch) with the globals board, score, won of game g.
HandleKeyOn(g, c) ==
    /\ fn = "none"
    /\ fn' = "handle_key" /\ arg' = [game |-> g, key |-> c]
    /\ res' \in game_handle_key(g.board, g.score, g.won, c)
    /\ UNCHANGED restVars

\* colors.py and 2048.py imported, no terminal involved.
InitPure ==
    /\ pc = "import"
    /\ LoopInit
    /\ ColorsInit /\ COLOR_PAIRS = 256
    /\ app = "client" /\ board = <<>> /\ score = 0 /\ won = FALSE
    /\ TunablesInit

NextPure ==
    \/ BuildPalette
    \/ \E name \in DOMAIN COLOR_HEX : \E vname \in DOMAIN COLOR_HEX[name] :
          LookupIndex(name, vname)
    \/ \E bg_idx \in 0..(Len(XTERM256) - 1) : AutoContrast(bg_idx)
    \/ \E tiles \in Lines : CompressLine(tiles)
    \/ \E g \in Games, c \in HandleKeys : HandleKeyOn(g, c)

SpecPure == InitPure /\ [][NextPure]_vars

\* ===================================================================== claims

\* The keys of a sequence that come before its first quit key.
RECURSIVE BeforeQuit(_)
BeforeQuit(seq) ==
    IF seq = <<>> \/ Head(seq) \in QuitKeys THEN <<>>
    ELSE <<Head(seq)>> \o BeforeQuit(Tail(seq))

\* The run has been inside mainloop's try block (it entered Running).
EnteredRunning == iterNo > 0

\* C1: a run that entered Running and has left mainloop, by whichever exit path,
\* ran teardown once and endwin once; restoration never runs twice, and no
\* callback is invoked once restoration has started.
C1_RestoredOnEveryExit ==
    /\ (pc = "done" /\ EnteredRunning) => (teardownCalls = 1 /\ endwinCalls = 1)
    /\ teardownCalls <= 1
    /\ endwinCalls <= teardownCalls
    /\ (endwinCalls = 1) => (pc = "done")
    /\ ~cbAfterRestore
    /\ (pc \in {"handle_key", "draw"}) => (teardownCalls = 0)

\* C1 witness: the key handler raised, and mainloop propagated it after endwin.
C1_Witness ==
    pc = "done" /\ result = "raised" /\ iterRaised /\ endwinCalls = 1

\* The keys buffered when the input step began have all been read and handed to
\* the key handler, in order.
DrainedInput ==
    /\ Len(readSeq) >= readAtInput + Len(bufAtInput)
    /\ SubSeq(readSeq, readAtInput + 1, readAtInput + Len(bufAtInput)) = bufAtInput
    /\ Len(handled) >= handledAtInput + Len(bufAtInput)
    /\ SubSeq(handled, handledAtInput + 1, handledAtInput + Len(bufAtInput))
         = bufAtInput

\* C2: whenever update_draw is about to be invoked or has been invoked in the
\* current iteration, every key that was buffered at the start of that
\* iteration's input step has been read and dispatched; and a key leaves the
\* buffer only in the getch step, never while pacing or drawing.
C2_DrainBeforeDraw ==
    /\ []((pc = "draw" \/ iterDraws > 0) => DrainedInput)
    /\ [][(keybuf' # keybuf /\ Len(keybuf') <= Len(keybuf)) => pc = "getch"]_vars
    /\ [][(readSeq' # readSeq) => pc = "getch"]_vars

\* C2 witness: two keys were buffered before the input step and the frame is
\* about to be drawn.
C2_Witness == pc = "draw" /\ Len(bufAtInput) >= 2

\* C3: the keys passed to handle_key are exactly the keys read before the first
\* quit key, in arrival order, each once; no quit key is ever passed.
C3_ForwardedKeys ==
    /\ readSeq \o keybuf = typed
    /\ IF pc = "handle_key"
       THEN Append(handled, ch) = BeforeQuit(readSeq)
       ELSE handled = BeforeQuit(readSeq)
    /\ \A i \in 1..Len(handled) : handled[i] \notin QuitKeys

\* C3 witness: 'a', 'b' then a quit key were read; 'a' and 'b' were forwarded.
C3_Witness == handled = <<KEY_a, KEY_b>> /\ quitRead

\* C4: once a quit key has been read the loop is no longer Running, no draw was
\* or will be made in that iteration or later, and nothing more is read or
\* dispatched.
C4_QuitStopsLoop ==
    /\ [](quitRead => (LoopState \in {"ShuttingDown", "Exited"} /\ iterDraws = 0))
    /\ [][quitRead => (draws' = draws /\ handled' = handled /\ readSeq' = readSeq)]_vars

\* C4 witness: mainloop returned on a quit key with a key still buffered behind it.
C4_Witness == quitRead /\ pc = "done" /\ keybuf # <<>> /\ result = "returned"

\* C9: if mainloop is left with the terminal still in curses mode, endwin was at
\* least called: a failure after initscr is followed by restoration.
C9_RestoredAfterInitFailure ==
    (pc = "done" /\ term = "curses") => (endwinCalls = 1)

\* An iteration of the loop has ended, by looping or by leaving the loop.
IterEnded ==
    /\ iterNo > 0
    /\ (pc = "timing" \/ LoopState \in {"ShuttingDown", "Exited"})

\* What an iteration that ran its draw step shows.
DrewOnce ==
    /\ iterDraws = 1
    /\ iterLastWrites = 1
    /\ last = now
    /\ drawDt = now - lastAtIterStart

Answered == {a \in answers : a.err = ""}

\* C5: the slot id depends on the resolved (fg_idx, bg_idx) tuple only: two
\* answered requests have the same slot id exactly when their tuples are equal,
\* whatever their bold and underline flags; requests equal in tuple and flags
\* get the same attribute; and the number of slots allocated is the number of
\* different tuples, so a change of style flags allocates nothing.
C5_SlotByTuple ==
    /\ \A a, b \in Answered : (a.pid = b.pid) <=> (a.key = b.key)
    /\ \A a, b \in Answered :
          (a.key = b.key /\ a.bold = b.bold /\ a.underline = b.underline)
              => (a.attr = b.attr)
    /\ \A a \in Answered :
          a.attr = color_pair(a.pid) + (IF a.bold THEN A_BOLD ELSE 0)
                     + (IF a.underline THEN A_UNDERLINE ELSE 0)
    /\ NEXT_PAIR_ID - 1 = Cardinality({a.key : a \in Answered})

\* C5 witness: one tuple asked for with different flags and through different
\* fg arguments, and a second tuple.
C5_Witness ==
    \E a, b, c \in Answered :
        /\ a.key = b.key /\ a.bold # b.bold /\ a.fg # b.fg
        /\ c.key # a.key

\* The (fg_idx, bg_idx) tuple of the i-th successful init_pair call.
LogKey(i) == <<initPairLog[i][2], initPairLog[i][3]>>

\* C6 (state part): the slot ids are exactly 1..n for the n different tuples
\* answered, the i-th registered tuple holds id i, the counter is n + 1, each
\* tuple was registered once and no id belongs to two tuples.
SlotsDense ==
    LET n == Len(initPairLog) IN
    /\ NEXT_PAIR_ID = n + 1
    /\ n = Cardinality({a.key : a \in Answered})
    /\ DOMAIN PAIR_CACHE = {LogKey(i) : i \in 1..n}
    /\ {PAIR_CACHE[k] : k \in DOMAIN PAIR_CACHE} = 1..n
    /\ \A i \in 1..n : initPairLog[i][1] = i /\ PAIR_CACHE[LogKey(i)] = i
    /\ \A i, j \in 1..n : (LogKey(i) = LogKey(j)) => (i = j)

\* C6 (step part): the counter never decreases; it moves by one, exactly when a
\* tuple not seen before is registered, and that tuple gets the counter's old
\* value while every earlier entry keeps its id.
SlotsInOrder ==
    /\ NEXT_PAIR_ID' >= NEXT_PAIR_ID
    /\ \A k \in DOMAIN PAIR_CACHE :
          k \in DOMAIN PAIR_CACHE' /\ PAIR_CACHE'[k] = PAIR_CACHE[k]
    /\ \A k \in DOMAIN PAIR_CACHE' \ DOMAIN PAIR_CACHE :
          /\ PAIR_CACHE'[k] = NEXT_PAIR_ID
          /\ NEXT_PAIR_ID' = NEXT_PAIR_ID + 1
          /\ \E a \in answers' \ answers : a.key = k
    /\ (NEXT_PAIR_ID' # NEXT_PAIR_ID) => (DOMAIN PAIR_CACHE' # DOMAIN PAIR_CACHE)

\* C6: pair ids are 1..n in first-seen order, the counter is n + 1 and monotonic.
C6_DenseMonotonicIds == [](SlotsDense) /\ [][SlotsInOrder]_vars

\* C6 witness: three tuples were registered.
C6_Witness == Len(initPairLog) = 3 /\ NEXT_PAIR_ID = 4

\* C7 (state part): a request that failed on init_pair got no attribute, its
\* tuple is not cached and the counter stands at the ceiling; every answered
\* request still finds its slot id in the cache.
FailedLoudly ==
    /\ \A a \in answers :
          (a.err = "curses.error") =>
              /\ a.attr = 0
              /\ a.key \notin DOMAIN PAIR_CACHE
              /\ NEXT_PAIR_ID >= COLOR_PAIRS
    /\ \A a \in Answered :
          a.key \in DOMAIN PAIR_CACHE /\ PAIR_CACHE[a.key] = a.pid

\* C7 (step part): a request for an uncached tuple at the ceiling fails, and a
\* failing request leaves the cache, the counter and the registered pairs alone.
FailureKeepsCache ==
    \A a \in answers' \ answers :
        /\ (a.key # <<>> /\ a.key \notin DOMAIN PAIR_CACHE
              /\ NEXT_PAIR_ID >= COLOR_PAIRS) => (a.err = "curses.error")
        /\ (a.err # "") =>
              /\ PAIR_CACHE' = PAIR_CACHE
              /\ NEXT_PAIR_ID' = NEXT_PAIR_ID
              /\ initPairLog' = initPairLog

\* C7: pair exhaustion fails the call and corrupts nothing.
C7_ExhaustionFailsLoudly == [](FailedLoudly) /\ [][FailureKeepsCache]_vars

\* C7 witness: a request failed at the ceiling and a later request for a cached
\* tuple was answered with its slot.
C7_Witness ==
    \E a, b \in answers :
        /\ a.err = "curses.error"
        /\ b.err = "" /\ b.afterError /\ PAIR_CACHE[b.key] = b.pid

\* A frame has just been drawn and its callback has returned.
FrameDrawn == pc = "timing" /\ iterDraws = 1

\* C11: when the draw callback has returned, the surface has been flushed
\* (refresh called) before the next iteration begins, on every return path of
\* the draw callbacks of the clock and of 2048.
C11_FlushAfterDraw == FrameDrawn => iterFlushes = 1

\* 2048 left update_draw by its too-small return and the surface was flushed.
C11_Witness ==
    /\ FrameDrawn /\ iterFlushes = 1
    /\ app = "2048" /\ too_small(frameSz[1], frameSz[2])

\* C12: the elapsed time handed to a draw callback is at least the frame
\* interval and consecutive timestamps are at least one interval apart; an
\* iteration sleeps at most once, for exactly the remaining time, and not at
\* all when the elapsed time already meets the target.
C12_Pacing ==
    /\ []((draws > 0 => drawDt >= delta_time_target) /\ iterSleeps <= 1)
    /\ [][(pc = "setlast" /\ pc' = "getch") =>
              last' - last >= delta_time_target]_vars
    /\ [][(iterSleeps' = iterSleeps + 1) =>
              (/\ now - last < delta_time_target
               /\ sleepArg' = delta_time_target - (now - last))]_vars
    /\ [][(pc = "timing" /\ now' - last >= delta_time_target) =>
              (pc' = "setlast" /\ iterSleeps' = 0)]_vars

\* An iteration that began one tick after the previous one slept the other
\* tick and drew.
C12_Witness ==
    /\ iterSleeps = 1 /\ iterDraws = 1
    /\ sleepArg = delta_time_target - 1 /\ sleepArg > 0

\* A surface on which every write of both applications lands.
Roomy(sz) == sz[1] >= 24 /\ sz[2] >= 80

\* C14: a glyph write outside the surface is discarded alone: the draw callback
\* makes all its other writes and returns, the loop stays Running, and a later
\* frame on a large enough surface is drawn with no write discarded.
C14_WriteErrorsDiscarded ==
    /\ [](FrameDrawn => frameWrites = frameAll)
    /\ [](FrameDrawn /\ Roomy(frameSz) => frameErrors = 0)
    /\ [][(draws' = draws + 1 /\ frameErrors' > 0) =>
              (pc' = "timing" /\ ~exc')]_vars

\* A frame with discarded writes was followed by a frame drawn in full.
C14_Witness ==
    /\ FrameDrawn /\ errorsBefore /\ frameErrors = 0 /\ frameAll > 0
    /\ Roomy(frameSz)

\* C8: every init_pair call, and so every change of the pair table, is made
\* while the Frame Loop is Running.
C8_PairsOnlyWhileRunning == pairCallStates \subseteq {"Running"}

Unknown(a) == ~Registered(a.bg) \/ (a.fg # None /\ ~Registered(a.fg))

\* C15: a get_color request naming an unregistered color or variant, as bg or
\* as fg, raises KeyError and leaves the pair cache, the next-id counter and
\* the terminal's pairs as they were; only requests naming registered colors
\* ever change them.
C15_UnknownColorFailsFirst ==
    [][/\ \A a \in answers' \ answers :
            Unknown(a) => /\ a.err = "KeyError"
                          /\ PAIR_CACHE' = PAIR_CACHE
                          /\ NEXT_PAIR_ID' = NEXT_PAIR_ID
                          /\ initPairLog' = initPairLog
       /\ (PAIR_CACHE' # PAIR_CACHE \/ NEXT_PAIR_ID' # NEXT_PAIR_ID
              \/ initPairLog' # initPairLog)
           => \E a \in answers' \ answers : ~Unknown(a)]_vars

\* A client that was given a pair, then asked for an unregistered background
\* and for an unregistered foreground on a registered background.
C15_Witness ==
    /\ PAIR_CACHE # <<>> /\ Len(initPairLog) = 1
    /\ \E a, b \in answers :
          /\ ~Registered(a.bg) /\ a.err = "KeyError"
          /\ Registered(b.bg) /\ b.fg # None /\ ~Registered(b.fg)
          /\ b.err = "KeyError" /\ ~b.afterError

\* C16: the palette _build_xterm256 returns has 256 entries; 0..15 are the
\* sixteen ANSI triples, 16 + 36r + 6g + b is (L[r], L[g], L[b]) for the six
\* cube levels L, and 232 + i is the gray 8 + 10i; entries 0 and 16 are black,
\* 231 is white, 232 is (8,8,8) and 255 is (238,238,238).
C16_Palette ==
    fn = "_build_xterm256" =>
        LET L == <<0, 95, 135, 175, 215, 255>>
            entry(i) == res[i + 1]
        IN  /\ Len(res) = 256
            /\ res = XTERM256
            /\ \A i \in 0..15 : entry(i) = ANSI16[i + 1]
            /\ entry(1) = <<205, 0, 0>> /\ entry(15) = <<255, 255, 255>>
            /\ \A r \in 0..5, g \in 0..5, b \in 0..5 :
                  entry(16 + 36 * r + 6 * g + b) = <<L[r + 1], L[g + 1], L[b + 1]>>
            /\ \A i \in 0..23 :
                  entry(232 + i) = <<8 + 10 * i, 8 + 10 * i, 8 + 10 * i>>
            /\ entry(0) = <<0, 0, 0>> /\ entry(16) = <<0, 0, 0>>
            /\ entry(231) = <<255, 255, 255>>
            /\ entry(232) = <<8, 8, 8>> /\ entry(255) = <<238, 238, 238>>

\* The palette was built, and its cube holds a color off the gray diagonal.
C16_Witness ==
    /\ fn = "_build_xterm256" /\ Len(res) = 256
    /\ res[16 + 36 * 1 + 6 * 2 + 3 + 1] = <<95, 135, 175>>

\* C17: for every registered name and variant the precomputed index is in
\* 0..255 and is the lowest palette index at the least squared RGB distance
\* from the named color; black resolves to 0 (not 16), white to 15 (not
\* 231); a lookup that follows another gives the same.
C17_NearestLowestIndex ==
    fn = "COLOR_IDX" =>
        LET rgb == hex_to_rgb(COLOR_HEX[arg[1]][arg[2]])
            sq(x) == x * x
            dist(i) == sq(rgb[1] - XTERM256[i + 1][1])
                       + sq(rgb[2] - XTERM256[i + 1][2])
                       + sq(rgb[3] - XTERM256[i + 1][3])
        IN  /\ res \in 0..255
            /\ \A j \in 0..255 :
                  dist(res) < dist(j) \/ (dist(res) = dist(j) /\ res <= j)
            /\ (arg = <<"black", "base">> => res = 0)
            /\ (arg = <<"white", "base">> => res = 15)

\* White was looked up: palette entries 15 and 231 are equally near, and the
\* lower one was kept.
C17_Witness ==
    /\ fn = "COLOR_IDX" /\ arg = <<"white", "base">> /\ res = 15
    /\ XTERM256[15 + 1] = XTERM256[231 + 1]

\* C18: for every background index the auto-contrast foreground is black (0)
\* when the luma 0.2126 R + 0.7152 G + 0.0722 B of the palette entry is above
\* 140 and white (15) otherwise, never anything else.
C18_AutoContrast ==
    fn = "_auto_contrast_fg" =>
        LET p == XTERM256[arg + 1]
            luma10000 == 2126 * p[1] + 7152 * p[2] + 722 * p[3]
        IN  /\ res \in {0, 15}
            /\ (res = 0 <=> luma10000 > 1400000)

\* A background just above the threshold (luma 140.9) got the black
\* foreground.
C18_Witness ==
    /\ fn = "_auto_contrast_fg" /\ res = 0
    /\ LET p == XTERM256[arg + 1]
       IN  2126 * p[1] + 7152 * p[2] + 722 * p[3] \in 1400001..1420000

\* The sum of the numbers of a sequence.
RECURSIVE SeqSum(_)
SeqSum(q) == IF q = <<>> THEN 0 ELSE Head(q) + SeqSum(Tail(q))

\* The ways to cut n tiles into consecutive groups of one or two.
Groupings(n) ==
    {p \in UNION {[1..k -> {1, 2}] : k \in 0..n} : SeqSum(p) = n}

\* The position in the tiles at which group j of grouping p starts.
GroupStart(p, j) == 1 + SeqSum(SubSeq(p, 1, j - 1))

\* Grouping p pairs the tiles xs from the left: a group is a pair exactly when
\* it starts at a tile that equals its right neighbour.
PairsFromLeft(xs, p) ==
    \A j \in 1..Len(p) :
        p[j] = 2 <=> /\ GroupStart(p, j) < Len(xs)
                     /\ xs[GroupStart(p, j)] = xs[GroupStart(p, j) + 1]

\* C19: compress_line returns a line of the same length with its nonzero tiles
\* packed to the left in their original order; each is one input tile or the
\* merge of two adjacent equal input tiles, paired from the left, and no
\* merged tile is merged again ([2,2,4,0] gives [4,4,0,0], [2,2,2,2] gives
\* [4,4,0,0]); the sum of the tiles is preserved, gained is the sum of the
\* merged output tiles, and moved is true exactly when the output differs from
\* the input.
C19_CompressLine ==
    fn = "compress_line" =>
        LET xs == SelectSeq(arg, LAMBDA x : x # 0)
            out == res.line
        IN  /\ Len(out) = Len(arg)
            /\ \A i, j \in 1..Len(out) : (i < j /\ out[i] = 0) => out[j] = 0
            /\ \E p \in Groupings(Len(xs)) :
                  /\ PairsFromLeft(xs, p)
                  /\ \A j \in 1..Len(out) :
                        out[j] = IF j <= Len(p) THEN p[j] * xs[GroupStart(p, j)]
                                 ELSE 0
                  /\ res.gained =
                        SeqSum([j \in 1..Len(p) |->
                                   IF p[j] = 2 THEN out[j] ELSE 0])
            /\ SeqSum(out) = SeqSum(arg)
            /\ (res.moved <=> out # arg)
            /\ (arg = <<2, 2, 4, 0>> => out = <<4, 4, 0, 0>>)
            /\ (arg = <<2, 2, 2, 2>> => out = <<4, 4, 0, 0>>)

\* A line whose merge produces a tile equal to its neighbour, which stays
\* unmerged: [0,2,2,4] gave [4,4,0,0] and 4 points.
C19_Witness ==
    /\ fn = "compress_line" /\ SelectSeq(arg, LAMBDA x : x # 0) = <<2, 2, 4>>
    /\ Head(arg) = 0
    /\ SubSeq(res.line, 1, 3) = <<4, 4, 0>> /\ res.gained = 4 /\ res.moved

\* The board a direction key makes of board b before any tile is spawned.
Slid(b, c) ==
    CASE c \in LeftKeys -> move_left(b)
      [] c \in RightKeys -> move_right(b)
      [] c \in UpKeys -> move_up(b)
      [] c \in DownKeys -> move_down(b)

DirectionKeys == LeftKeys \cup RightKeys \cup UpKeys \cup DownKeys

\* The cells of a board, and those holding a tile.
Cells == (1..SIZE) \X (1..SIZE)
Tiles(b) == {rc \in Cells : b[rc[1]][rc[2]] # 0}

\* C20: handle_key spawns one tile, a 2 or a 4 on a cell the move left empty,
\* and adds the gained amount to the score exactly when a direction key
\* changed the board; a direction key that changes nothing and a key it does
\* not know leave board, score and won as they were; 'r' sets the score to 0,
\* clears won and installs a board with exactly two tiles.
C20_HandleKey ==
    fn = "handle_key" =>
        LET g == arg.game
            c == arg.key
        IN  /\ (c \in DirectionKeys /\ Slid(g.board, c).board # g.board) =>
                LET m == Slid(g.board, c) IN
                /\ res.score = g.score + m.gained
                /\ \E rc \in Cells :
                      /\ m.board[rc[1]][rc[2]] = 0
                      /\ res.board[rc[1]][rc[2]] \in {2, 4}
                      /\ \A o \in Cells \ {rc} :
                            res.board[o[1]][o[2]] = m.board[o[1]][o[2]]
            /\ (c \in DirectionKeys /\ Slid(g.board, c).board = g.board) =>
                res = g
            /\ (c \notin DirectionKeys \cup {114}) => res = g
            /\ c = 114 =>
                /\ res.score = 0 /\ ~res.won
                /\ Cardinality(Tiles(res.board)) = 2
                /\ \A rc \in Tiles(res.board) : res.board[rc[1]][rc[2]] \in {2, 4}

\* A LEFT key merged two tiles of a new game: points were gained and the board
\* holds the merged tile and the spawned one.
C20_Witness ==
    /\ fn = "handle_key" /\ arg.key \in LeftKeys
    /\ res.score = arg.game.score + 4 /\ res.score = 4
    /\ Cardinality(Tiles(res.board)) = 2
    /\ Cardinality(Tiles(arg.game.board)) = 2

\* None of the four moves would change board b.
Stuck(b) ==
    /\ move_left(b).board = b /\ move_right(b).board = b
    /\ move_up(b).board = b /\ move_down(b).board = b

\* A game of 2048 is on: the module was imported and its board installed.
Playing == app = "2048" /\ board # <<>>

\* A frame of 2048 was drawn to its end on the board the game holds now.
GameFrame == Playing /\ FrameDrawn

\* Every cell is 0 or a power of two from 2 up, and some cell holds a tile.
BoardSound ==
    /\ \A rc \in Cells : board[rc[1]][rc[2]] \in TileValues
    /\ Tiles(board) # {}

\* C21 as stated: has_moves(board) is false, and the Game Over message is
\* shown by a frame, exactly when no move would change the board; the cells
\* are 0 or powers of two and the board is never empty.
C21_Original ==
    /\ Playing => (/\ ~has_moves(board) <=> Stuck(board)
                   /\ BoardSound)
    /\ GameFrame => (frameMsg = msg_over <=> Stuck(board))

\* C21 amended: has_moves(board) is false exactly when no move would change
\* the board; a frame drawn on a terminal large enough for the board shows
\* the Game Over message exactly then, and a frame on a smaller terminal
\* shows no win/lose message at all; the cells are 0 or powers of two and the
\* board is never empty.
C21_GameOverIffStuck ==
    /\ Playing => (/\ ~has_moves(board) <=> Stuck(board)
                   /\ BoardSound)
    /\ (GameFrame /\ ~too_small(frameSz[1], frameSz[2])) =>
           (frameMsg = msg_over <=> Stuck(board))
    /\ (GameFrame /\ too_small(frameSz[1], frameSz[2])) => frameMsg = ""

\* Two keys filled the board so that no move is left, and the frame drawn
\* after them wrote the Game Over message.
C21_Witness ==
    /\ GameFrame /\ Len(handled) = 2 /\ Stuck(board) /\ ~has_moves(board)
    /\ frameMsg = msg_over /\ ~too_small(frameSz[1], frameSz[2])

====
